---- MODULE Spec2Model ----
(***************************************************************************)
(* Model of star-db-query-builder: the WHERE-clause compiler               *)
(* (src/src/core/utils.ts) and the generic repository built on it          *)
(* (src/src/default/genericRepository.ts), and the pg and mysql clients    *)
(* that execute the statements (src/src/db/pgClient.ts and the mysql       *)
(* client kept in src/src/db/__tests__/mysqlClient.test.ts).               *)
(*                                                                         *)
(* SQL text is modelled as TLA+ strings built exactly as the template      *)
(* literals of the source build them, so that a statement can be compared  *)
(* character by character and scanned for placeholders.                    *)
(***************************************************************************)
EXTENDS Integers, Sequences, FiniteSets, TLC

VARIABLES
    whereCall,   \* arguments of the pending / last createWhereClause call
    whereRet,    \* its return value [whereClause, values, index]
    req,         \* arguments of the pending / last repository operation
    ret,         \* what the operation resolved to or rejected with
    queries,     \* the dbClient.query calls of the operation, in order
    db,          \* rows of the table behind dbClient, in storage order
    uuids,       \* number of identifiers uuid() has generated
    qry,         \* the pending / last query call on a pg or mysql client
    events,      \* what monitor.emit was called with, in order
    execs,       \* the statements handed to the pool or to a connection
    pool,        \* the connections of the pg pool
    tx           \* the transaction handles beginTransaction returned

whereVars == <<whereCall, whereRet>>
repoVars == <<req, ret, queries, db, uuids>>
clientVars == <<qry, events, execs, pool, tx>>
vars == <<whereCall, whereRet, req, ret, queries, db, uuids,
          qry, events, execs, pool, tx>>

----------------------------------------------------------------------------
(* Bounds *)

MaxArr == 3        \* longest array value of a leaf
MaxLeaves == 2     \* most implicit (non-grouped) leaves of a condition object
MaxChildren == 2   \* most children of an AND / OR / JOINS group
MaxStart == 2      \* largest start index handed to createWhereClause
MaxRows == 2       \* most rows of the table before the operation
MaxItems == 2      \* most items of the data array of insertMany
MaxIds == 2        \* most identifiers handed to deleteMany
MaxRetries == 2    \* largest retryOptions.retries of a client
MaxConns == 1      \* connections of the pg pool
MaxHandles == 2    \* most beginTransaction calls
MaxCalls == 2      \* most query / commit / rollback calls on handles

----------------------------------------------------------------------------
(* String helpers: JavaScript string primitives used by the source *)

RECURSIVE Join(_, _)
\* Array.prototype.join
Join(parts, sep) ==
    IF Len(parts) = 0 THEN ""
    ELSE IF Len(parts) = 1 THEN parts[1]
    ELSE parts[1] \o sep \o Join(Tail(parts), sep)

\* the positions at which pat occurs in s
Occurrences(s, pat) ==
    {i \in 1..(Len(s) - Len(pat) + 1) : SubSeq(s, i, i + Len(pat) - 1) = pat}
Min(S) == CHOOSE m \in S : \A n \in S : m <= n

\* first position >= i at which pat occurs in s, 0 when there is none
IndexOfFrom(s, pat, i) ==
    LET at == {j \in Occurrences(s, pat) : j >= i}
    IN IF at = {} THEN 0 ELSE Min(at)

\* String.prototype.includes
Includes(s, pat) == IndexOfFrom(s, pat, 1) # 0

\* String.prototype.replace with a string pattern: first occurrence only
Replace(s, pat, rep) ==
    LET i == IndexOfFrom(s, pat, 1) IN
    IF i = 0 THEN s
    ELSE SubSeq(s, 1, i - 1) \o rep \o SubSeq(s, i + Len(pat), Len(s))

----------------------------------------------------------------------------
(* Condition model (src/src/core/utils.ts, types at the end of the file)   *)
(*                                                                         *)
(* A condition object is the sequence of its entries in insertion order.   *)
(* The node under a key is a leaf {operator, value}, a list (the array of  *)
(* an AND / OR / JOINS group), some other object, or null.  An array       *)
(* element (child) is an object (again a sequence of entries) or not.      *)

Leaf(op, vtype, items) ==
    [kind |-> "leaf", operator |-> op, vtype |-> vtype, items |-> items,
     children |-> <<>>]
List(children) ==
    [kind |-> "list", operator |-> "", vtype |-> "", items |-> <<>>,
     children |-> children]
ObjectNode ==
    [kind |-> "object", operator |-> "", vtype |-> "", items |-> <<>>,
     children |-> <<>>]
NullNode ==
    [kind |-> "null", operator |-> "", vtype |-> "", items |-> <<>>,
     children |-> <<>>]
Entry(key, node) == [key |-> key, node |-> node]
ObjChild(entries) == [isObj |-> TRUE, entries |-> entries]
NonObjChild == [isObj |-> FALSE, entries |-> <<>>]

\* 'K' in conditions
HasKey(conditions, k) == \E i \in 1..Len(conditions) : conditions[i].key = k
\* conditions.K (undefined, modelled as NullNode, when the key is absent)
Get(conditions, k) ==
    IF HasKey(conditions, k)
    THEN conditions[CHOOSE i \in 1..Len(conditions) : conditions[i].key = k].node
    ELSE NullNode
\* JavaScript truthiness of a node
Truthy(node) == node.kind # "null"

----------------------------------------------------------------------------
(* Clause compiler *)

pgPlaceholderGenerator(index) == "$" \o ToString(index)
mysqlPlaceholderGenerator == "?"

\* value.map(() => pg ? pgPlaceholderGenerator(index++) : mysqlPlaceholderGenerator())
ArrayPlaceholders(n, index, clientType) ==
    [i \in 1..n |-> IF clientType = "pg"
                    THEN pgPlaceholderGenerator(index + i - 1)
                    ELSE mysqlPlaceholderGenerator]

\* whereParts.push(part)
Push(st, part) == [st EXCEPT !.whereParts = Append(@, part)]

\* processCondition: st is the closure state [index, whereParts, values]
processCondition(st, key, condition, clientType, unaccent) ==
    IF condition.kind # "leaf" \/ condition.vtype = "absent" THEN st
    ELSE
      LET operator == condition.operator
          items == condition.items
      IN
      IF operator = "NOT EXISTS" /\ condition.vtype = "string"
      THEN Push(st, "NOT EXISTS (" \o items[1] \o ")")
      ELSE IF Includes(operator, "NULL")
      THEN Push(st, key \o " " \o operator)
      ELSE IF condition.vtype = "array"
      THEN
        LET placeholders ==
                Join(ArrayPlaceholders(Len(items), st.index, clientType), ", ")
            part ==
                IF operator = "BETWEEN"
                THEN key \o " " \o operator \o " "
                         \o Replace(placeholders, ", ", " AND ")
                ELSE key \o " " \o operator \o " (" \o placeholders \o ")"
        IN [index |-> IF clientType = "pg" THEN st.index + Len(items)
                                              ELSE st.index,
            whereParts |-> Append(st.whereParts, part),
            values |-> st.values \o items]
      ELSE
        LET part ==
              IF unaccent /\ clientType = "pg"
              THEN IF operator = "ILIKE"
                   THEN "unaccent(" \o key \o "::text) ILIKE unaccent("
                            \o pgPlaceholderGenerator(st.index) \o ")"
                   ELSE "unaccent(" \o key \o "::text) " \o operator
                            \o " unaccent("
                            \o pgPlaceholderGenerator(st.index) \o ")"
              ELSE IF clientType = "pg"
                   THEN key \o " " \o operator \o " "
                            \o pgPlaceholderGenerator(st.index)
                   ELSE key \o " " \o operator \o " "
                            \o mysqlPlaceholderGenerator
        IN [index |-> st.index + 1,
            whereParts |-> Append(st.whereParts, part),
            values |-> st.values \o items]

\* whereParts.pop(): the removed last part ("" stands for undefined, which
\* the following .filter((part) => part) drops exactly like '')
Popped(st) ==
    IF Len(st.whereParts) = 0 THEN ""
    ELSE st.whereParts[Len(st.whereParts)]
Pop(st) ==
    IF Len(st.whereParts) = 0 THEN st
    ELSE [st EXCEPT !.whereParts = SubSeq(@, 1, Len(@) - 1)]

RECURSIVE MapSubConditions_SameIndex(_, _, _, _, _)
\* MapSubConditions compiling every child against the index the group
\* started with instead of the running one
MapSubConditions_SameIndex(acc, compositeConditions, i, clientType, unaccent) ==
    IF i > Len(compositeConditions) THEN acc
    ELSE
      LET subCondition == compositeConditions[i]
          key == IF Len(subCondition.entries) = 0 THEN "undefined"
                 ELSE subCondition.entries[1].key
          condition == IF Len(subCondition.entries) = 0 THEN NullNode
                       ELSE subCondition.entries[1].node
          st1 == processCondition(acc.st, key, condition, clientType, unaccent)
          part == Popped(st1)
          next ==
            IF subCondition.isObj
            THEN [st |-> [Pop(st1) EXCEPT !.index = acc.st.index],
                  sub |-> IF part # "" THEN Append(acc.sub, part) ELSE acc.sub]
            ELSE acc
      IN MapSubConditions_SameIndex(next, compositeConditions, i + 1,
                                    clientType, unaccent)

RECURSIVE MapSubConditions(_, _, _, _, _)
\* compositeConditions.map(subCondition => ...).filter((part) => part):
\* acc is [st, sub] with sub the parts kept so far
MapSubConditions(acc, compositeConditions, i, clientType, unaccent) ==
    IF i > Len(compositeConditions) THEN acc
    ELSE
      LET subCondition == compositeConditions[i]
          key == IF Len(subCondition.entries) = 0 THEN "undefined"
                 ELSE subCondition.entries[1].key
          condition == IF Len(subCondition.entries) = 0 THEN NullNode
                       ELSE subCondition.entries[1].node
          st1 == processCondition(acc.st, key, condition, clientType, unaccent)
          part == Popped(st1)
          next ==
            IF subCondition.isObj
            THEN [st |-> Pop(st1),
                  sub |-> IF part # "" THEN Append(acc.sub, part) ELSE acc.sub]
            ELSE acc
      IN MapSubConditions(next, compositeConditions, i + 1, clientType, unaccent)

\* the body of `if (Array.isArray(compositeConditions)) { ... }`
CompileGroup(st, compositeConditions, logicalOperator, clientType, unaccent) ==
    LET r == MapSubConditions([st |-> st, sub |-> <<>>], compositeConditions,
                              1, clientType, unaccent)
    IN Push(r.st, "(" \o Join(r.sub, " " \o logicalOperator \o " ") \o ")")

RECURSIVE ForEachEntry(_, _, _, _, _)
\* Object.entries(conditions).forEach(([key, value]) => processCondition(key, value))
ForEachEntry(st, conditions, i, clientType, unaccent) ==
    IF i > Len(conditions) THEN st
    ELSE ForEachEntry(
           processCondition(st, conditions[i].key, conditions[i].node,
                            clientType, unaccent),
           conditions, i + 1, clientType, unaccent)

\* the `if ('JOINS' in conditions) { ... } else { ... }` statement
CompileJoinsOrEntries(st, conditions, clientType, unaccent) ==
    IF HasKey(conditions, "JOINS")
    THEN IF Get(conditions, "JOINS").kind = "list"
         THEN CompileGroup(st, Get(conditions, "JOINS").children,
                           IF Truthy(Get(conditions, "JOINS")) THEN "AND" ELSE "OR",
                           clientType, unaccent)
         ELSE st
    ELSE ForEachEntry(st, conditions, 1, clientType, unaccent)

\* conditions.OR || conditions.AND
OrElseAnd(conditions) ==
    IF Truthy(Get(conditions, "OR"))
    THEN Get(conditions, "OR") ELSE Get(conditions, "AND")

\* the `if ('OR' in conditions || 'AND' in conditions) { ... }` statement
CompileOrAnd(st, conditions, clientType, unaccent) ==
    IF HasKey(conditions, "OR") \/ HasKey(conditions, "AND")
    THEN IF OrElseAnd(conditions).kind = "list"
         THEN CompileGroup(st, OrElseAnd(conditions).children,
                           IF Truthy(Get(conditions, "OR")) THEN "OR" ELSE "AND",
                           clientType, unaccent)
         ELSE st
    ELSE st

\* the return statement; no path of the function throws: error is ""
WhereResult(st) ==
    [whereClause |-> IF Len(st.whereParts) > 0
                     THEN " WHERE " \o Join(st.whereParts, " AND ")
                     ELSE "",
     values |-> st.values, index |-> st.index, error |-> ""]

createWhereClause_UnaccentOnAnyClient(conditions, startIndex, clientType, unaccent) ==
    WhereResult(
      CompileOrAnd(
        CompileJoinsOrEntries(
          [index |-> startIndex, whereParts |-> <<>>, values |-> <<>>],
          conditions, IF unaccent THEN "pg" ELSE clientType, unaccent),
        conditions, IF unaccent THEN "pg" ELSE clientType, unaccent))
createWhereClause(conditions, startIndex, clientType, unaccent) ==
    WhereResult(
      CompileOrAnd(
        CompileJoinsOrEntries(
          [index |-> startIndex, whereParts |-> <<>>, values |-> <<>>],
          conditions, clientType, unaccent),
        conditions, clientType, unaccent))

----------------------------------------------------------------------------
(* Inputs of the compiler specification *)

Scalars == {"active", "pending"}
Fields == {"status", "age"}
\* the keys of the implicit leaves of one object, in insertion order
FieldSeq == <<"status", "age", "name">>
Operators ==
    {"=", "ILIKE", "IN", "NOT IN", "BETWEEN", "IS NULL", "IS NOT NULL",
     "NOT EXISTS"}
ClientTypes == {"pg", "mysql"}

ArrayValues == UNION {[1..k -> Scalars] : k \in 0..MaxArr}

\* every operator with every shape of value: a string, a number, an array,
\* or no `value` property at all
AllLeaves ==
    {Leaf(op, "string", <<s>>) : op \in Operators, s \in Scalars}
    \cup {Leaf(op, "number", <<"18">>) : op \in Operators}
    \cup {Leaf(op, "array", a) : op \in Operators, a \in ArrayValues}
    \cup {Leaf(op, "absent", <<>>) : op \in Operators}

\* the leaves used inside composite objects: one parameter, several, none
CoreLeaves ==
    {Leaf("=", "string", <<"active">>),
     Leaf("IN", "array", <<"active", "pending">>),
     Leaf("IS NULL", "string", <<"active">>)}

LeafChildren ==
    {ObjChild(<<Entry("status", Leaf("=", "string", <<"active">>))>>),
     ObjChild(<<Entry("status", Leaf("=", "string", <<"pending">>))>>),
     ObjChild(<<Entry("age", Leaf("IN", "array", <<"active", "pending">>))>>),
     ObjChild(<<Entry("age", Leaf("IS NULL", "string", <<"active">>))>>)}
\* a child that is itself a group (README "Complex WHERE Conditions")
NestedChildren ==
    {ObjChild(<<Entry("OR", List(<<
        ObjChild(<<Entry("age", Leaf("=", "number", <<"18">>))>>),
        ObjChild(<<Entry("status", Leaf("=", "string", <<"pending">>))>>)>>))>>)}
Children == LeafChildren \cup NestedChildren \cup {NonObjChild, ObjChild(<<>>)}

ChildLists == UNION {[1..k -> Children] : k \in 0..MaxChildren}
GroupKeys == {"OR", "AND", "JOINS"}
GroupEntries ==
    {Entry(g, List(c)) : g \in GroupKeys, c \in ChildLists}
    \cup {Entry(g, n) : g \in GroupKeys, n \in {NullNode, ObjectNode}}

ImplicitLeaves ==
    UNION {{[i \in 1..k |-> Entry(FieldSeq[i], f[i])] : f \in [1..k -> CoreLeaves]}
           : k \in 0..MaxLeaves}

\* condition objects: a single leaf of any shape; or implicit leaves with at
\* most one group entry, inserted before or after them
LeafConditions == {<<Entry(f, l)>> : f \in Fields, l \in AllLeaves}
TreeConditions ==
    ImplicitLeaves
    \cup {ls \o <<g>> : ls \in ImplicitLeaves, g \in GroupEntries}
    \cup {<<g>> \o ls : ls \in ImplicitLeaves, g \in GroupEntries}
ConditionObjects == LeafConditions \cup TreeConditions

WhereCalls ==
    [conditions : ConditionObjects, startIndex : 1..MaxStart,
     clientType : ClientTypes, unaccent : BOOLEAN]

NoWhereRet ==
    [done |-> FALSE, whereClause |-> "", values |-> <<>>, index |-> 0,
     error |-> ""]

\* arguments a caller may leave out, as the operations see them
NoWhere == [defined |-> FALSE, conditions |-> <<>>]
NoData == [defined |-> FALSE, keys |-> <<>>, values |-> <<>>]
NoItems == [defined |-> FALSE, list |-> <<>>]
NoIds == [defined |-> FALSE, list |-> <<>>]
\* no operation called: every optional argument absent or at its default
NoRequest ==
    [op |-> "", tableName |-> "users", clientType |-> "pg", select |-> <<>>,
     where |-> NoWhere, data |-> NoData, items |-> NoItems, id |-> "",
     ids |-> NoIds, field |-> "id", permanently |-> FALSE, returning |-> <<>>,
     groupBy |-> <<>>, orderBy |-> <<>>, limit |-> 0, offset |-> 0,
     unaccent |-> FALSE, joins |-> <<>>]
\* the promise of an operation that has not settled
Pending == [state |-> "pending", type |-> "", rows |-> <<>>, error |-> ""]
\* no error: what a statement that succeeded, or a promise that has not
\* rejected, carries in place of one
NoError == [code |-> "", attempt |-> 0]
\* no query call made on a client
NoQuery ==
    [clientType |-> "pg", retries |-> 0, pc |-> "none", attempt |-> 0,
     timeouts |-> 0, error |-> NoError]
\* no client in use: nothing queried, emitted, executed, connected or begun
ClientIdle ==
    /\ qry = NoQuery
    /\ events = <<>>
    /\ execs = <<>>
    /\ pool = <<>>
    /\ tx = <<>>

----------------------------------------------------------------------------
(* Compiler specification: one createWhereClause call per behaviour *)

InitWhere ==
    /\ whereCall \in WhereCalls
    /\ whereRet = NoWhereRet
    /\ req = NoRequest
    /\ ret = Pending
    /\ queries = <<>>
    /\ db = <<>>
    /\ uuids = 0
    /\ ClientIdle

\* createWhereClause returns
CreateWhereClause ==
    /\ ~whereRet.done
    /\ LET r == createWhereClause(whereCall.conditions, whereCall.startIndex,
                                  whereCall.clientType, whereCall.unaccent)
       IN whereRet' = [done |-> TRUE, whereClause |-> r.whereClause,
                       values |-> r.values, index |-> r.index,
                       error |-> r.error]
    /\ UNCHANGED <<whereCall, repoVars, clientVars>>

NextWhere == CreateWhereClause

SpecWhere == InitWhere /\ [][NextWhere]_vars

----------------------------------------------------------------------------
(* SQL fragments *)

\* both arms of the ternary are `${item}`: no quoting on either dialect
arrayToStringWithQuotes(items, clientType) == Join(items, ", ")

createSelectFields(fields, clientType) ==
    IF Len(fields) > 0 THEN arrayToStringWithQuotes(fields, clientType) ELSE "*"

generatePlaceholders(keys, clientType) ==
    Join([i \in 1..Len(keys) |->
            IF clientType = "pg" THEN "$" \o ToString(i) ELSE "?"], ", ")

generateSetClause(keys, clientType) ==
    Join([i \in 1..Len(keys) |->
            IF clientType = "pg" THEN keys[i] \o " = $" \o ToString(i)
                                 ELSE keys[i] \o " = ?"], ", ")

createOrderByClause(orderBy) ==
    IF Len(orderBy) = 0 THEN ""
    ELSE " ORDER BY "
         \o Join([i \in 1..Len(orderBy) |->
                    orderBy[i].field \o " " \o orderBy[i].direction], ", ")

createGroupByClause(groupBy) ==
    IF Len(groupBy) = 0 THEN "" ELSE " GROUP BY " \o Join(groupBy, ", ")

\* an absent limit / offset is 0: both are falsy
createLimitClause(limit) ==
    IF limit = 0 THEN "" ELSE " LIMIT " \o ToString(limit)
createOffsetClause(offset) ==
    IF offset = 0 THEN "" ELSE " OFFSET " \o ToString(offset)

----------------------------------------------------------------------------
(* The table behind dbClient and what a statement does to it *)

Columns == {"id", "status", "name", "updated_at"}
Now == "now"                              \* new Date()
NewUuid(n) == "uuid-" \o ToString(n)      \* the n-th result of uuid()

\* the row a list of column names and values describes; other columns NULL
RowOf(keys, values) ==
    [c \in Columns |->
        IF \E i \in 1..Len(keys) : keys[i] = c
        THEN values[CHOOSE i \in 1..Len(keys) : keys[i] = c]
        ELSE "NULL"]

\* the row after SET keys = values
SetColumns(row, keys, values) ==
    [c \in Columns |->
        IF \E i \in 1..Len(keys) : keys[i] = c
        THEN values[CHOOSE i \in 1..Len(keys) : keys[i] = c]
        ELSE row[c]]

\* SELECT list: '*' (no fields) gives the whole row
Project(row, fields) ==
    IF Len(fields) = 0 THEN row
    ELSE [c \in {fields[i] : i \in 1..Len(fields)} |-> row[c]]

\* the predicate a WHERE clause denotes, for clauses of '=' and IN
\* comparisons and one AND / OR group of such comparisons
LeafHolds(row, key, leaf) ==
    IF leaf.operator = "=" THEN row[key] = leaf.items[1]
    ELSE \E i \in 1..Len(leaf.items) : row[key] = leaf.items[i]
Matches(row, conditions) ==
    \A i \in 1..Len(conditions) :
        IF conditions[i].node.kind = "leaf"
        THEN LeafHolds(row, conditions[i].key, conditions[i].node)
        ELSE IF conditions[i].node.kind # "list" THEN TRUE
        ELSE IF conditions[i].key = "OR"
        THEN \E j \in 1..Len(conditions[i].node.children) :
                 LeafHolds(row, conditions[i].node.children[j].entries[1].key,
                           conditions[i].node.children[j].entries[1].node)
        ELSE \A j \in 1..Len(conditions[i].node.children) :
                 LeafHolds(row, conditions[i].node.children[j].entries[1].key,
                           conditions[i].node.children[j].entries[1].node)

\* WHERE id = <id>   and   WHERE <field> IN (<ids>)
ById(id) == <<Entry("id", Leaf("=", "string", <<id>>))>>
ByFieldIn(field, ids) == <<Entry(field, Leaf("IN", "array", ids))>>

\* rows a SELECT ... WHERE returns: the matching rows in storage order
DbSelect(table, conditions, fields) ==
    LET hit == SelectSeq(table, LAMBDA row : Matches(row, conditions))
    IN [i \in 1..Len(hit) |-> Project(hit[i], fields)]
\* the table after UPDATE ... SET keys = values WHERE conditions
DbUpdate(table, conditions, keys, values) ==
    [i \in 1..Len(table) |->
        IF Matches(table[i], conditions)
        THEN SetColumns(table[i], keys, values) ELSE table[i]]
\* the table after DELETE ... WHERE conditions
DbDelete(table, conditions) ==
    SelectSeq(table, LAMBDA row : ~Matches(row, conditions))
\* the identifiers of the rows a WHERE clause selects
DbMatching(table, conditions) ==
    {table[i].id : i \in {j \in 1..Len(table) : Matches(table[j], conditions)}}
\* rows a pg UPDATE ... RETURNING returns: the rows it changed, as changed
DbReturning(table, conditions, keys, values, fields) ==
    LET hit == SelectSeq(table, LAMBDA row : Matches(row, conditions))
    IN [i \in 1..Len(hit) |-> Project(SetColumns(hit[i], keys, values), fields)]

\* one dbClient.query call: the statement, what it resolved to and the
\* identifiers of the rows it wrote
Stmt(text, params, rows, affected) ==
    [text |-> text, params |-> params, rows |-> rows, affected |-> affected,
     response |-> "rows"]
\* what dbClient.query may resolve to for a result of `rows`: the array
\* itself, and for a result without rows also null or undefined
ClientResponses(rows) ==
    IF Len(rows) = 0 THEN {"rows", "null", "undefined"} ELSE {"rows"}

----------------------------------------------------------------------------
(* Generic repository *)

\* resolve with an array of rows
ResolveRows(rows) ==
    [state |-> "resolved", type |-> "rows", rows |-> rows, error |-> ""]
\* resolve with rows[0]: undefined when the array is empty
ResolveFirst(rows) ==
    IF Len(rows) = 0
    THEN [state |-> "resolved", type |-> "undefined", rows |-> <<>>, error |-> ""]
    ELSE [state |-> "resolved", type |-> "row", rows |-> <<rows[1]>>, error |-> ""]
Reject_AfterQuery(message) ==
    /\ ret' = [state |-> "rejected", type |-> "", rows |-> <<>>, error |-> message]
    /\ queries' = <<Stmt("SELECT 1", <<>>, <<>>, {})>>
    /\ UNCHANGED <<db, uuids>>
\* throw new Error(message) before any query
Reject(message) ==
    /\ ret' = [state |-> "rejected", type |-> "", rows |-> <<>>, error |-> message]
    /\ UNCHANGED <<queries, db, uuids>>

\* dbClient is a transaction handle of the pg client: the object
\* beginTransaction returns has query, commit and rollback and no clientType
\* property, so dbClient.clientType is undefined
OnHandle(r) == r.clientType = "undefined"
\* a text the engine behind a pg handle cannot parse: '?' is no placeholder
\* of its dialect
NotPgSyntax(text) == Includes(text, "?")
\* dbClient.query rejects with the engine's error and the operation with it
EngineRejects(stmt) ==
    /\ queries' = <<stmt>>
    /\ ret' = [state |-> "rejected", type |-> "", rows |-> <<>>,
               error |-> "syntax error"]
    /\ UNCHANGED db

\* the RETURNING clause appended on pg when `returning` is a non-empty list
returningClause(r) ==
    IF r.clientType = "pg" /\ Len(r.returning) > 0
    THEN " RETURNING " \o createSelectFields(r.returning, r.clientType)
    ELSE ""
\* the select list of the follow-up SELECT on mysql
selectOrStar(r) ==
    IF Len(r.returning) > 0
    THEN createSelectFields(r.returning, r.clientType) ELSE "*"
\* rows of a statement on pg: those of RETURNING, none without it
PgRows(r, rows) == IF Len(r.returning) > 0 THEN rows ELSE <<>>

(* insert *)
insertKeys(r) ==
    <<"id">>
    \o [i \in 1..Len(r.data.keys) |->
          IF r.clientType = "pg" /\ r.data.keys[i] = "authorization"
          THEN "\"authorization\"" ELSE r.data.keys[i]]
    \o <<"updated_at">>
insertValues_IdLast(r, generatedUUID) == r.data.values \o <<Now, generatedUUID>>
insertValues(r, generatedUUID) == <<generatedUUID>> \o r.data.values \o <<Now>>
insertQuery(r) ==
    "INSERT INTO " \o r.tableName \o " (" \o Join(insertKeys(r), ", ")
        \o ") VALUES (" \o generatePlaceholders(insertKeys(r), r.clientType)
        \o ")" \o returningClause(r)
insertSelect(r) ==
    "SELECT " \o selectOrStar(r) \o " FROM " \o r.tableName
        \o "\n        WHERE\n          id = ?\n      "
\* the row the INSERT stores
insertedRow(r, generatedUUID) ==
    RowOf(<<"id">> \o r.data.keys \o <<"updated_at">>,
          <<generatedUUID>> \o r.data.values \o <<Now>>)
\* the dbClient.query calls of insert, given the table after the INSERT
insertQueries(r, generatedUUID, table) ==
    IF r.clientType = "mysql"
    THEN <<Stmt(insertQuery(r), insertValues(r, generatedUUID), <<>>,
                {generatedUUID}),
           Stmt(insertSelect(r), <<generatedUUID>>,
                DbSelect(table, ById(generatedUUID), r.returning), {})>>
    ELSE <<Stmt(insertQuery(r), insertValues(r, generatedUUID),
                PgRows(r, <<Project(insertedRow(r, generatedUUID), r.returning)>>),
                {generatedUUID})>>

Insert ==
    /\ req.op = "insert" /\ ret.state = "pending"
    /\ IF req.tableName = "" THEN Reject("Table name is required")
       ELSE IF req.clientType = "none" THEN Reject("DB client is required")
       ELSE IF ~req.data.defined THEN Reject("Data object is required")
       ELSE IF OnHandle(req) /\ NotPgSyntax(insertQuery(req))
       THEN /\ uuids' = uuids + 1
            /\ EngineRejects(Stmt(insertQuery(req),
                                   insertValues(req, NewUuid(uuids + 1)),
                                   <<>>, {}))
       ELSE /\ uuids' = uuids + 1
            /\ db' = Append(db, insertedRow(req, NewUuid(uuids + 1)))
            /\ queries' = insertQueries(req, NewUuid(uuids + 1), db')
            \* mysql: rows[0] of the SELECT; pg: inserted[0]
            /\ ret' = ResolveFirst(queries'[Len(queries')].rows)
    /\ UNCHANGED <<req, whereVars, clientVars>>

(* update *)
updateQuery(r) ==
    "UPDATE " \o r.tableName \o " SET "
        \o generateSetClause(r.data.keys, r.clientType)
        \o " WHERE id = '" \o r.id \o "'" \o returningClause(r)
updateSelect(r) ==
    "SELECT " \o selectOrStar(r) \o " FROM " \o r.tableName
        \o "\n        WHERE\n          id = ?\n      "
updateQueries(r, table) ==
    IF r.clientType = "mysql"
    THEN <<Stmt(updateQuery(r), r.data.values, <<>>,
                DbMatching(table, ById(r.id))),
           Stmt(updateSelect(r), <<r.id>>,
                DbSelect(DbUpdate(table, ById(r.id), r.data.keys, r.data.values),
                         ById(r.id), r.returning), {})>>
    ELSE <<Stmt(updateQuery(r), r.data.values,
                PgRows(r, DbReturning(table, ById(r.id), r.data.keys,
                                      r.data.values, r.returning)),
                DbMatching(table, ById(r.id)))>>

Update ==
    /\ req.op = "update" /\ ret.state = "pending"
    /\ IF req.tableName = "" THEN Reject("Table name is required")
       ELSE IF req.clientType = "none" THEN Reject("DB client is required")
       ELSE IF req.id = "" THEN Reject("ID is required")
       ELSE IF ~req.data.defined THEN Reject("Data object is required")
       ELSE IF OnHandle(req) /\ NotPgSyntax(updateQuery(req))
       THEN /\ EngineRejects(Stmt(updateQuery(req), req.data.values, <<>>, {}))
            /\ UNCHANGED uuids
       ELSE /\ queries' = updateQueries(req, db)
            /\ db' = DbUpdate(db, ById(req.id), req.data.keys, req.data.values)
            \* mysql: rows[0] of the SELECT; pg: updated[0]
            /\ ret' = ResolveFirst(queries'[Len(queries')].rows)
            /\ UNCHANGED uuids
    /\ UNCHANGED <<req, whereVars, clientVars>>

(* updateMany *)
updateManySet(r) ==
    Join([i \in 1..Len(r.data.keys) |->
            IF r.clientType = "pg"
            THEN r.data.keys[i] \o " = $" \o ToString(i)
            ELSE r.data.keys[i] \o " = ?"], ", ")
updateManyWhere_FromOne(r) ==
    createWhereClause(r.where.conditions, 1, r.clientType, FALSE)
\* the WHERE clause, numbered after the SET values
updateManyWhere(r) ==
    createWhereClause(r.where.conditions, Len(r.data.values) + 1,
                      r.clientType, FALSE)
updateManyQuery(r) ==
    "UPDATE " \o r.tableName \o " SET " \o updateManySet(r) \o " "
        \o updateManyWhere(r).whereClause \o returningClause(r)
updateManySelect(r) ==
    "SELECT " \o selectOrStar(r) \o " FROM " \o r.tableName
        \o "\n        " \o updateManyWhere(r).whereClause \o "\n      "
updateManyQueries(r, table) ==
    IF r.clientType = "mysql"
    THEN <<Stmt(updateManyQuery(r), r.data.values \o updateManyWhere(r).values,
                <<>>, DbMatching(table, r.where.conditions)),
           Stmt(updateManySelect(r), updateManyWhere(r).values,
                DbSelect(DbUpdate(table, r.where.conditions, r.data.keys,
                                  r.data.values),
                         r.where.conditions, r.returning), {})>>
    ELSE <<Stmt(updateManyQuery(r), r.data.values \o updateManyWhere(r).values,
                PgRows(r, DbReturning(table, r.where.conditions, r.data.keys,
                                      r.data.values, r.returning)),
                DbMatching(table, r.where.conditions))>>

UpdateMany ==
    /\ req.op = "updateMany" /\ ret.state = "pending"
    /\ IF req.tableName = "" THEN Reject("Table name is required")
       ELSE IF req.clientType = "none" THEN Reject("DB client is required")
       ELSE IF ~req.data.defined THEN Reject("Data object is required")
       ELSE IF ~req.where.defined THEN Reject("Where condition is required")
       ELSE /\ queries' = updateManyQueries(req, db)
            /\ db' = DbUpdate(db, req.where.conditions, req.data.keys,
                              req.data.values)
            \* mysql: the rows of the SELECT; pg: the rows of the UPDATE
            /\ ret' = ResolveRows(queries'[Len(queries')].rows)
            /\ UNCHANGED uuids
    /\ UNCHANGED <<req, whereVars, clientVars>>

(* findFirst, findMany *)
\* resolve with rows[0] || null
ResolveFirstOrNull_Last(rows) ==
    IF Len(rows) = 0
    THEN [state |-> "resolved", type |-> "undefined", rows |-> <<>>, error |-> ""]
    ELSE [state |-> "resolved", type |-> "row", rows |-> <<rows[Len(rows)]>>,
          error |-> ""]
ResolveFirstOrNull(rows) ==
    IF Len(rows) = 0
    THEN [state |-> "resolved", type |-> "null", rows |-> <<>>, error |-> ""]
    ELSE [state |-> "resolved", type |-> "row", rows |-> <<rows[1]>>, error |-> ""]
\* resolve with nothing (Promise<void>)
ResolveVoid == [state |-> "resolved", type |-> "undefined", rows |-> <<>>, error |-> ""]

\* createWhereClause(where, 1, clientType, unaccent); an absent where is {}
selectWhere(r) ==
    createWhereClause(r.where.conditions, 1, r.clientType, r.unaccent)
\* whereClause.length > 7 ? whereClause : ''
whereOrEmpty(whereClause) == IF Len(whereClause) > 7 THEN whereClause ELSE ""
findFirstQuery(r) ==
    "SELECT " \o createSelectFields(r.select, r.clientType) \o " FROM "
        \o r.tableName
        \o "\n      " \o whereOrEmpty(selectWhere(r).whereClause)
        \o "\n      " \o createGroupByClause(r.groupBy)
        \o "\n      " \o createOrderByClause(r.orderBy)
        \o "\n      "
findManyQuery(r) ==
    "SELECT " \o createSelectFields(r.select, r.clientType) \o " FROM "
        \o r.tableName
        \o "\n      " \o whereOrEmpty(selectWhere(r).whereClause)
        \o "\n      " \o createGroupByClause(r.groupBy)
        \o "\n      " \o createOrderByClause(r.orderBy)
        \o "\n      " \o createLimitClause(r.limit)
        \o "\n      " \o createOffsetClause(r.offset)
        \o "\n    "
\* rows left by OFFSET and LIMIT
Window(rows, limit, offset) ==
    SubSeq(rows, offset + 1,
           IF limit = 0 \/ offset + limit > Len(rows) THEN Len(rows)
           ELSE offset + limit)

FindFirst ==
    /\ req.op = "findFirst" /\ ret.state = "pending"
    /\ IF req.tableName = "" THEN Reject("Table name is required")
       ELSE IF req.clientType = "none" THEN Reject("DB client is required")
       ELSE /\ queries' = <<Stmt(findFirstQuery(req), selectWhere(req).values,
                                 DbSelect(db, req.where.conditions, req.select),
                                 {})>>
            /\ ret' = ResolveFirstOrNull(queries'[1].rows)
            /\ UNCHANGED <<db, uuids>>
    /\ UNCHANGED <<req, whereVars, clientVars>>

\* the rows the SELECT of findMany finds
findManyRows(r, table) ==
    Window(DbSelect(table, r.where.conditions, r.select), r.limit, r.offset)
rowsOrEmpty_AsResponded(response, rows) ==
    IF response = "rows" THEN ResolveRows(rows)
    ELSE [state |-> "resolved", type |-> response, rows |-> <<>>, error |-> ""]
\* rows || []
rowsOrEmpty(response, rows) ==
    ResolveRows(IF response = "rows" THEN rows ELSE <<>>)

FindMany ==
    /\ req.op = "findMany" /\ ret.state = "pending"
    /\ IF req.tableName = "" THEN Reject("Table name is required")
       ELSE IF req.clientType = "none" THEN Reject("DB client is required")
       ELSE /\ \E response \in ClientResponses(findManyRows(req, db)) :
                   queries' = <<[Stmt(findManyQuery(req),
                                      selectWhere(req).values,
                                      findManyRows(req, db), {})
                                 EXCEPT !.response = response]>>
            /\ ret' = rowsOrEmpty(queries'[1].response, queries'[1].rows)
            /\ UNCHANGED <<db, uuids>>
    /\ UNCHANGED <<req, whereVars, clientVars>>

(* insertMany *)
insertManyKeys(r) ==
    <<"id">>
    \o [i \in 1..Len(r.items.list[1].keys) |->
          IF r.clientType = "pg" /\ r.items.list[1].keys[i] = "authorization"
          THEN "\"authorization\"" ELSE r.items.list[1].keys[i]]
    \o <<"updated_at">>
\* generatedIds, when `first` identifiers were generated before
generatedIds_Reversed(first, n) == [i \in 1..n |-> NewUuid(first + n + 1 - i)]
generatedIds(first, n) == [i \in 1..n |-> NewUuid(first + i)]
\* allValues: [generatedUUID, ...values, new Date()] of every item
RECURSIVE insertManyValues(_, _, _)
insertManyValues(list, first, rowIndex) ==
    IF rowIndex > Len(list) THEN <<>>
    ELSE <<NewUuid(first + rowIndex)>> \o list[rowIndex].values \o <<Now>>
         \o insertManyValues(list, first, rowIndex + 1)
\* the placeholders of row rowIndex (0-based)
valueRow_SameStart(rowIndex, allKeys, clientType) ==
    "(" \o Join([index \in 1..Len(allKeys) |->
                   IF clientType = "pg" THEN "$" \o ToString(index) ELSE "?"],
                ", ") \o ")"
valueRow(rowIndex, allKeys, clientType) ==
    "(" \o Join([index \in 1..Len(allKeys) |->
                   IF clientType = "pg"
                   THEN "$" \o ToString(rowIndex * Len(allKeys) + 1 + (index - 1))
                   ELSE "?"],
                ", ") \o ")"
insertManyQuery(r) ==
    "INSERT INTO " \o r.tableName \o " (" \o Join(insertManyKeys(r), ", ")
        \o ") VALUES "
        \o Join([i \in 1..Len(r.items.list) |->
                   valueRow(i - 1, insertManyKeys(r), r.clientType)], ", ")
        \o returningClause(r)
insertManySelect(r) ==
    "SELECT " \o selectOrStar(r) \o " FROM " \o r.tableName
        \o "\n        WHERE id IN ("
        \o Join([i \in 1..Len(r.items.list) |-> "?"], ", ")
        \o ")\n        ORDER BY FIELD(id, "
        \o Join([i \in 1..Len(r.items.list) |-> "?"], ", ")
        \o ")\n      "
\* the statement binds as many values as it has placeholders
insertManyBinds(r) ==
    Len(insertManyValues(r.items.list, 0, 1))
        = Len(r.items.list) * Len(insertManyKeys(r))
\* the rows the INSERT stores: tuple i takes the values its placeholders name
insertedRows(r, first) ==
    [i \in 1..Len(r.items.list) |->
        RowOf(<<"id">> \o r.items.list[1].keys \o <<"updated_at">>,
              SubSeq(insertManyValues(r.items.list, first, 1),
                     (i - 1) * Len(insertManyKeys(r)) + 1,
                     i * Len(insertManyKeys(r))))]
\* SELECT ... WHERE id IN (ids) ORDER BY FIELD(id, ids)
DbSelectByIds(table, ids, fields) ==
    LET hit == SelectSeq(ids, LAMBDA id : \E j \in 1..Len(table) : table[j].id = id)
    IN [i \in 1..Len(hit) |->
          Project(table[CHOOSE j \in 1..Len(table) : table[j].id = hit[i]],
                  fields)]
insertManyQueries(r, first, table) ==
    IF r.clientType = "mysql"
    THEN <<Stmt(insertManyQuery(r), insertManyValues(r.items.list, first, 1),
                <<>>,
                {insertedRows(r, first)[i].id : i \in 1..Len(r.items.list)}),
           Stmt(insertManySelect(r),
                generatedIds(first, Len(r.items.list))
                    \o generatedIds(first, Len(r.items.list)),
                DbSelectByIds(table, generatedIds(first, Len(r.items.list)),
                              r.returning), {})>>
    ELSE <<Stmt(insertManyQuery(r), insertManyValues(r.items.list, first, 1),
                PgRows(r, [i \in 1..Len(r.items.list) |->
                              Project(insertedRows(r, first)[i], r.returning)]),
                {insertedRows(r, first)[i].id : i \in 1..Len(r.items.list)})>>

InsertMany ==
    /\ req.op = "insertMany" /\ ret.state = "pending"
    /\ IF req.tableName = "" THEN Reject("Table name is required")
       ELSE IF req.clientType = "none" THEN Reject("DB client is required")
       ELSE IF ~req.items.defined \/ Len(req.items.list) = 0
       THEN Reject("Data array is required and cannot be empty")
       ELSE IF ~insertManyBinds(req)
       THEN \* the server refuses a statement whose values do not fill its
            \* placeholders; the rejection of dbClient.query propagates
            /\ uuids' = uuids + Len(req.items.list)
            /\ queries' = <<Stmt(insertManyQuery(req),
                                 insertManyValues(req.items.list, uuids, 1),
                                 <<>>, {})>>
            /\ ret' = [state |-> "rejected", type |-> "", rows |-> <<>>,
                       error |-> "bind count mismatch"]
            /\ UNCHANGED db
       ELSE /\ uuids' = uuids + Len(req.items.list)
            /\ db' = db \o insertedRows(req, uuids)
            /\ queries' = insertManyQueries(req, uuids, db')
            \* mysql: the rows of the SELECT; pg: the rows of the INSERT
            /\ ret' = ResolveRows(queries'[Len(queries')].rows)
    /\ UNCHANGED <<req, whereVars, clientVars>>

(* deleteOne, deleteMany *)
deleteOneQuery(r) ==
    IF r.permanently
    THEN "DELETE FROM " \o r.tableName \o " WHERE id = "
             \o (IF r.clientType = "pg" THEN "$1" ELSE "?")
    ELSE "UPDATE " \o r.tableName \o " SET status = 'deleted' WHERE id = "
             \o (IF r.clientType = "pg" THEN "$1" ELSE "?")
deleteManyPlaceholders_One(r) == IF r.clientType = "pg" THEN "$1" ELSE "?"
deleteManyPlaceholders(r) ==
    Join([index \in 1..Len(r.ids.list) |->
            IF r.clientType = "pg" THEN "$" \o ToString(index) ELSE "?"], ", ")
deleteManyQuery(r) ==
    IF r.permanently
    THEN "DELETE FROM " \o r.tableName \o " WHERE " \o r.field \o " IN ("
             \o deleteManyPlaceholders(r) \o ")"
    ELSE "UPDATE " \o r.tableName \o " SET status = 'deleted' WHERE "
             \o r.field \o " IN (" \o deleteManyPlaceholders(r) \o ")"
\* the table after the hard or soft delete of the rows of `conditions`
DbRemove(table, conditions, permanently) ==
    IF permanently THEN DbDelete(table, conditions)
    ELSE DbUpdate(table, conditions, <<"status">>, <<"deleted">>)

DeleteOne ==
    /\ req.op = "deleteOne" /\ ret.state = "pending"
    /\ IF req.tableName = "" THEN Reject("Table name is required")
       ELSE IF req.clientType = "none" THEN Reject("DB client is required")
       ELSE IF req.id = "" THEN Reject("ID is required")
       ELSE /\ queries' = <<Stmt(deleteOneQuery(req), <<req.id>>, <<>>,
                                 DbMatching(db, ById(req.id)))>>
            /\ db' = DbRemove(db, ById(req.id), req.permanently)
            /\ ret' = ResolveVoid
            /\ UNCHANGED uuids
    /\ UNCHANGED <<req, whereVars, clientVars>>

DeleteMany ==
    /\ req.op = "deleteMany" /\ ret.state = "pending"
    /\ IF req.tableName = "" THEN Reject("Table name is required")
       ELSE IF req.clientType = "none" THEN Reject("DB client is required")
       ELSE IF ~req.ids.defined \/ Len(req.ids.list) = 0
       THEN Reject("IDs are required and cannot be empty")
       ELSE IF req.field = "" THEN Reject("Field is required")
       ELSE /\ queries' = <<Stmt(deleteManyQuery(req), req.ids.list, <<>>,
                                 DbMatching(db, ByFieldIn(req.field,
                                                          req.ids.list)))>>
            /\ db' = DbRemove(db, ByFieldIn(req.field, req.ids.list),
                              req.permanently)
            /\ ret' = ResolveVoid
            /\ UNCHANGED uuids
    /\ UNCHANGED <<req, whereVars, clientVars>>

(* joins *)
buildQuery(r) ==
    "SELECT " \o createSelectFields(r.select, r.clientType) \o " FROM "
        \o r.tableName
        \o Join([i \in 1..Len(r.joins) |->
                   " " \o r.joins[i].type \o " JOIN " \o r.joins[i].table
                       \o " ON " \o r.joins[i].on], "")
        \o selectWhere(r).whereClause
        \o createGroupByClause(r.groupBy)
        \o createOrderByClause(r.orderBy)
        \o createLimitClause(r.limit)
        \o createOffsetClause(r.offset)
\* the rows of `rows` at the positions `keep`, in order
Keep(rows, keep) ==
    LET pos == SelectSeq([i \in 1..Len(rows) |-> i], LAMBDA i : i \in keep)
    IN [i \in 1..Len(pos) |-> rows[pos[i]]]

Joins ==
    /\ req.op = "joins" /\ ret.state = "pending"
    /\ IF req.tableName = "" THEN Reject("Table name is required")
       ELSE IF req.clientType = "none" THEN Reject("DB client is required")
       ELSE \* the joined tables are not part of the state: an INNER JOIN
            \* keeps any of the rows the WHERE clause selects
            \E keep \in SUBSET (1..Len(db)) :
                /\ Len(req.joins) = 0 => keep = 1..Len(db)
                /\ queries' = <<Stmt(buildQuery(req), selectWhere(req).values,
                                     Window(DbSelect(Keep(db, keep),
                                                     req.where.conditions,
                                                     req.select),
                                            req.limit, req.offset),
                                     {})>>
                /\ ret' = ResolveRows(queries'[1].rows)
                /\ UNCHANGED <<db, uuids>>
    /\ UNCHANGED <<req, whereVars, clientVars>>

----------------------------------------------------------------------------
(* Repository specification: one operation on one table per behaviour *)

\* table name and client as the caller passes them: '' and no client are
\* the missing ones
Heads ==
    {[tableName |-> "users", clientType |-> "pg"],
     [tableName |-> "users", clientType |-> "mysql"],
     [tableName |-> "", clientType |-> "pg"],
     [tableName |-> "users", clientType |-> "none"]}

\* a transaction handle of the pg client passed as dbClient
HandleHead == [tableName |-> "users", clientType |-> "undefined"]

\* tables of up to MaxRows rows r1, r2, ... in storage order
RowIds == [i \in 1..(MaxRows + 1) |-> "r" \o ToString(i)]
StoredRow(i, status) ==
    [id |-> RowIds[i], status |-> status, name |-> "Bob", updated_at |-> "t0"]
Tables ==
    UNION {{[i \in 1..n |-> StoredRow(i, st[i])] : st \in [1..n -> Scalars]}
           : n \in 0..MaxRows}

\* data objects: keys in insertion order with their values
DataObjects ==
    {[defined |-> TRUE, keys |-> <<"status">>, values |-> <<v>>] : v \in Scalars}
    \cup {[defined |-> TRUE, keys |-> <<"name">>, values |-> <<"Ann">>]}
    \cup {[defined |-> TRUE, keys |-> <<"status", "name">>,
           values |-> <<v, "Ann">>] : v \in Scalars}
    \cup {[defined |-> TRUE, keys |-> <<"name", "status">>,
           values |-> <<"Ann", v>>] : v \in Scalars}
DataArguments == DataObjects \cup {NoData}
ItemArguments ==
    {NoItems}
    \cup UNION {{[defined |-> TRUE, list |-> l] : l \in [1..n -> DataObjects]}
                : n \in 0..MaxItems}
IdArguments == {"", "r1", "r9"}
IdsArguments ==
    {NoIds}
    \cup UNION {{[defined |-> TRUE, list |-> l] : l \in [1..n -> {"r1", "r2", "Bob"}]}
                : n \in 0..MaxIds}
FieldArguments == {"id", "name", ""}
Returnings == {<<>>, <<"id", "status">>, <<"status">>}
Selects == {<<>>, <<"id", "status">>}
\* where conditions of comparisons the table can answer
RepoConditions ==
    {<<>>,
     <<Entry("status", Leaf("=", "string", <<"active">>))>>,
     <<Entry("status", Leaf("IN", "array", <<"active", "pending">>))>>,
     <<Entry("status", Leaf("=", "string", <<"pending">>)),
       Entry("name", Leaf("=", "string", <<"Bob">>))>>,
     <<Entry("OR", List(<<ObjChild(<<Entry("status", Leaf("=", "string", <<"active">>))>>),
                          ObjChild(<<Entry("name", Leaf("=", "string", <<"Ann">>))>>)>>))>>}
WhereArguments ==
    {NoWhere} \cup {[defined |-> TRUE, conditions |-> c] : c \in RepoConditions}
\* GROUP BY and ORDER BY that leave the rows and their order as stored
Groupings ==
    {[groupBy |-> <<>>, orderBy |-> <<>>],
     [groupBy |-> <<"id">>, orderBy |-> <<>>],
     [groupBy |-> <<>>, orderBy |-> <<[field |-> "id", direction |-> "ASC"]>>]}
JoinArguments ==
    {<<>>, <<[type |-> "INNER", table |-> "orders",
              on |-> "users.id = orders.user_id"]>>}

FindFirstRequests ==
    {[NoRequest EXCEPT !.op = "findFirst", !.tableName = h.tableName,
                       !.clientType = h.clientType, !.select = s, !.where = w,
                       !.groupBy = g.groupBy, !.orderBy = g.orderBy]
     : h \in Heads, s \in Selects, w \in WhereArguments, g \in Groupings}
FindManyRequests ==
    {[NoRequest EXCEPT !.op = "findMany", !.tableName = h.tableName,
                       !.clientType = h.clientType, !.select = s, !.where = w,
                       !.groupBy = g.groupBy, !.orderBy = g.orderBy,
                       !.limit = l[1], !.offset = l[2], !.unaccent = u]
     : h \in Heads, s \in Selects, w \in WhereArguments, g \in Groupings,
       l \in (0..1) \X (0..1), u \in BOOLEAN}
InsertRequests ==
    {[NoRequest EXCEPT !.op = "insert", !.tableName = h.tableName,
                       !.clientType = h.clientType, !.data = d,
                       !.returning = rt]
     : h \in Heads \cup {HandleHead}, d \in DataArguments, rt \in Returnings}
InsertManyRequests ==
    {[NoRequest EXCEPT !.op = "insertMany", !.tableName = h.tableName,
                       !.clientType = h.clientType, !.items = d,
                       !.returning = rt]
     : h \in Heads, d \in ItemArguments, rt \in Returnings}
UpdateRequests ==
    {[NoRequest EXCEPT !.op = "update", !.tableName = h.tableName,
                       !.clientType = h.clientType, !.id = id, !.data = d,
                       !.returning = rt]
     : h \in Heads \cup {HandleHead}, id \in IdArguments, d \in DataArguments,
       rt \in Returnings}
UpdateManyRequests ==
    {[NoRequest EXCEPT !.op = "updateMany", !.tableName = h.tableName,
                       !.clientType = h.clientType, !.where = w, !.data = d,
                       !.returning = rt]
     : h \in Heads, w \in WhereArguments, d \in DataArguments,
       rt \in Returnings}
DeleteOneRequests ==
    {[NoRequest EXCEPT !.op = "deleteOne", !.tableName = h.tableName,
                       !.clientType = h.clientType, !.id = id,
                       !.permanently = p]
     : h \in Heads, id \in IdArguments, p \in BOOLEAN}
DeleteManyRequests ==
    {[NoRequest EXCEPT !.op = "deleteMany", !.tableName = h.tableName,
                       !.clientType = h.clientType, !.ids = ids, !.field = f,
                       !.permanently = p]
     : h \in Heads, ids \in IdsArguments, f \in FieldArguments, p \in BOOLEAN}
JoinsRequests ==
    {[NoRequest EXCEPT !.op = "joins", !.tableName = h.tableName,
                       !.clientType = h.clientType, !.select = s, !.where = w,
                       !.groupBy = g.groupBy, !.orderBy = g.orderBy,
                       !.limit = l[1], !.offset = l[2], !.joins = j]
     : h \in Heads, s \in Selects, w \in WhereArguments, g \in Groupings,
       l \in (0..1) \X (0..1), j \in JoinArguments}
Requests ==
    FindFirstRequests \cup FindManyRequests \cup InsertRequests
    \cup InsertManyRequests \cup UpdateRequests \cup UpdateManyRequests
    \cup DeleteOneRequests \cup DeleteManyRequests \cup JoinsRequests

Init ==
    /\ req \in Requests
    /\ ret = Pending
    /\ queries = <<>>
    /\ db \in Tables
    /\ uuids = 0
    /\ whereCall = [conditions |-> <<>>, startIndex |-> 1, clientType |-> "pg",
                    unaccent |-> FALSE]
    /\ whereRet = NoWhereRet
    /\ ClientIdle

Next ==
    \/ FindFirst
    \/ FindMany
    \/ Insert
    \/ InsertMany
    \/ Update
    \/ UpdateMany
    \/ DeleteOne
    \/ DeleteMany
    \/ Joins

Spec == Init /\ [][Next]_vars

----------------------------------------------------------------------------
(* pg and mysql clients: query with classified retry *)

pgTransientErrorCodes == {"ECONNRESET", "ETIMEDOUT", "ECONNREFUSED"}
mysqlTransientErrorCodes ==
    {"ECONNRESET", "ETIMEDOUT", "PROTOCOL_CONNECTION_LOST", "ECONNREFUSED"}
transientErrorCodes(clientType) ==
    IF clientType = "pg" THEN pgTransientErrorCodes
    ELSE mysqlTransientErrorCodes

isTransientError_AnyCode(clientType, error) == error.code # ""
\* error && error.code && transientErrorCodes.has(error.code)
isTransientError(clientType, error) ==
    error.code # "" /\ error.code \in transientErrorCodes(clientType)

\* the codes of the errors a statement may fail with; "" is an error
\* without a code
ErrorCodes ==
    {"ECONNRESET", "ETIMEDOUT", "ECONNREFUSED", "PROTOCOL_CONNECTION_LOST",
     "ER_NO_SUCH_TABLE", ""}

retryTimeouts_OneMore(retries) == retries + 1
\* promiseRetry(fn, retryOptions): one backoff timeout per allowed retry
retryTimeouts(retries) == retries

Event(type, attempt) == [type |-> type, attempt |-> attempt]
\* a statement handed to the pool (by = "pool", conn = 0) or to the
\* connection conn by the transaction handle by; error is how it failed
Exec(by, conn, sql, state, error) ==
    [by |-> by, conn |-> conn, sql |-> sql, state |-> state, error |-> error]
\* the last execution settles
Settle(state, error) ==
    [execs EXCEPT ![Len(execs)].state = state, ![Len(execs)].error = error]

Queries ==
    [clientType : ClientTypes, retries : 0..MaxRetries, pc : {"idle"},
     attempt : {0}, timeouts : {0}, error : {NoError}]

InitQuery ==
    /\ qry \in Queries
    /\ events = <<>>
    /\ execs = <<>>
    /\ pool = <<>>
    /\ tx = <<>>
    /\ whereCall = [conditions |-> <<>>, startIndex |-> 1, clientType |-> "pg",
                    unaccent |-> FALSE]
    /\ whereRet = NoWhereRet
    /\ req = NoRequest
    /\ ret = Pending
    /\ queries = <<>>
    /\ db = <<>>
    /\ uuids = 0

\* client.query(sql, params): promiseRetry starts the first attempt
Query ==
    /\ qry.pc = "idle"
    /\ qry' = [qry EXCEPT !.pc = "attempting", !.attempt = 1,
                          !.timeouts = retryTimeouts(qry.retries)]
    /\ UNCHANGED <<events, execs, pool, tx, whereVars, repoVars>>

\* an attempt begins: QUERY_START, then pool.query / pool.execute
AttemptStart ==
    /\ qry.pc = "attempting"
    /\ events' = Append(events, Event("QUERY_START", qry.attempt))
    /\ execs' = Append(execs, Exec("pool", 0, "SELECT 1", "running", NoError))
    /\ qry' = [qry EXCEPT !.pc = "executing"]
    /\ UNCHANGED <<pool, tx, whereVars, repoVars>>

\* the statement succeeds: QUERY_END, the rows are returned
ExecuteSucceeds ==
    /\ qry.pc = "executing"
    /\ events' = Append(events, Event("QUERY_END", qry.attempt))
    /\ execs' = Settle("done", NoError)
    /\ qry' = [qry EXCEPT !.pc = "resolved"]
    /\ UNCHANGED <<pool, tx, whereVars, repoVars>>

\* the catch block for `error`: what it emits
failureEvents(clientType, attempt, error) ==
    IF isTransientError(clientType, error)
    THEN <<Event("QUERY_ERROR", attempt), Event("RETRY_ATTEMPT", attempt)>>
    ELSE <<Event("QUERY_ERROR", attempt)>>
\* ... and how the attempt ends: retry(error) schedules the next attempt
\* while a timeout is left and rejects with the error otherwise; a
\* non-transient error is thrown
afterFailure(q, error) ==
    IF isTransientError(q.clientType, error) /\ q.timeouts > 0
    THEN [q EXCEPT !.pc = "scheduled", !.timeouts = q.timeouts - 1]
    ELSE [q EXCEPT !.pc = "rejected", !.error = error]

\* the statement fails with an error of some code
ExecuteFails ==
    /\ qry.pc = "executing"
    /\ \E code \in ErrorCodes :
          /\ events' = events \o failureEvents(qry.clientType, qry.attempt,
                                  [code |-> code, attempt |-> qry.attempt])
          /\ execs' = Settle("failed", [code |-> code, attempt |-> qry.attempt])
          /\ qry' = afterFailure(qry, [code |-> code, attempt |-> qry.attempt])
    /\ UNCHANGED <<pool, tx, whereVars, repoVars>>

\* the backoff timeout fires: the next attempt
RetryTimer ==
    /\ qry.pc = "scheduled"
    /\ qry' = [qry EXCEPT !.pc = "attempting", !.attempt = qry.attempt + 1]
    /\ UNCHANGED <<events, execs, pool, tx, whereVars, repoVars>>

NextQuery ==
    \/ Query
    \/ AttemptStart
    \/ ExecuteSucceeds
    \/ ExecuteFails
    \/ RetryTimer

SpecQuery == InitQuery /\ [][NextQuery]_vars

----------------------------------------------------------------------------
(* pg client: transactions *)

\* codes of the errors a statement on a connection may fail with
TxErrorCodes == {"ECONNRESET", "23505"}
\* the error of the statement at position n of execs
TxError(code, n) == [code |-> code, attempt |-> n]
\* what pool.connect() gives out: an idle connection of the pool
IdleConns == {c \in 1..Len(pool) : ~pool[c].held}
\* what client.release() throws when the client is not checked out
ReleaseError == [code |-> "ERELEASED", attempt |-> 0]

\* a beginTransaction call: the connection it acquired (0: none), whether
\* it returned a handle, the error it rejected with, the number of times
\* client.release() was called for it, and the calls made on the handle
Handle(conn, ok, error, releases) ==
    [conn |-> conn, ok |-> ok, error |-> error, releases |-> releases,
     calls |-> <<>>]
\* a call on a handle: its statement (position in execs), whether it called
\* client.release(), and what its promise settled to
HandleCall(op, exec, released, outcome, error) ==
    [op |-> op, exec |-> exec, released |-> released, outcome |-> outcome,
     error |-> error]

InitTx ==
    /\ pool = [c \in 1..MaxConns |-> [held |-> FALSE, holder |-> 0]]
    /\ tx = <<>>
    /\ execs = <<>>
    /\ events = <<>>
    /\ qry = NoQuery
    /\ whereCall = [conditions |-> <<>>, startIndex |-> 1, clientType |-> "pg",
                    unaccent |-> FALSE]
    /\ whereRet = NoWhereRet
    /\ req = NoRequest
    /\ ret = Pending
    /\ queries = <<>>
    /\ db = <<>>
    /\ uuids = 0

\* beginTransaction: pool.connect() rejects; nothing was acquired
ConnectFails ==
    /\ Len(tx) < MaxHandles
    /\ \E code \in TxErrorCodes :
           tx' = Append(tx, Handle(0, FALSE, TxError(code, 0), 0))
    /\ UNCHANGED <<pool, execs, events, qry, whereVars, repoVars>>

\* beginTransaction: a connection is acquired, BEGIN succeeds, the handle
\* is returned
BeginTransaction ==
    /\ Len(tx) < MaxHandles
    /\ \E c \in IdleConns :
          /\ pool' = [pool EXCEPT ![c] = [held |-> TRUE, holder |-> Len(tx) + 1]]
          /\ execs' = Append(execs, Exec(Len(tx) + 1, c, "BEGIN", "done", NoError))
          /\ tx' = Append(tx, Handle(c, TRUE, NoError, 0))
    /\ UNCHANGED <<events, qry, whereVars, repoVars>>

\* beginTransaction: BEGIN throws; the catch block releases the connection
\* and rethrows
BeginFails ==
    /\ Len(tx) < MaxHandles
    /\ \E c \in IdleConns, code \in TxErrorCodes :
          /\ execs' = Append(execs, Exec(Len(tx) + 1, c, "BEGIN", "failed",
                                         TxError(code, Len(execs) + 1)))
          /\ tx' = Append(tx, Handle(c, FALSE, TxError(code, Len(execs) + 1), 1))
          /\ pool' = [pool EXCEPT ![c] = [held |-> FALSE, holder |-> Len(tx) + 1]]
    /\ UNCHANGED <<events, qry, whereVars, repoVars>>

\* the calls made on handles so far: each executed one statement
HandleCalls == {n \in 1..Len(execs) : execs[n].sql # "BEGIN"}
\* handles a caller holds and may still call (the model stops at MaxCalls
\* calls)
Callable ==
    {h \in 1..Len(tx) : tx[h].ok /\ Cardinality(HandleCalls) < MaxCalls}
\* outcomes of a statement: NoError when it succeeds
Outcomes(n) == {NoError} \cup {TxError(code, n) : code \in TxErrorCodes}

txQueryEvents_WithRetry(error) ==
    IF error = NoError
    THEN <<Event("QUERY_START", 1), Event("QUERY_END", 1)>>
    ELSE <<Event("QUERY_START", 1), Event("QUERY_ERROR", 1),
           Event("RETRY_ATTEMPT", 1)>>
\* what query() on a handle emits around its statement
txQueryEvents(error) ==
    IF error = NoError
    THEN <<Event("QUERY_START", 1), Event("QUERY_END", 1)>>
    ELSE <<Event("QUERY_START", 1), Event("QUERY_ERROR", 1)>>

\* query() on a handle: one client.query on the handle's connection
TxQuery ==
    \E h \in Callable, error \in Outcomes(Len(execs) + 1) :
        /\ execs' = Append(execs, Exec(h, tx[h].conn, "SELECT 1",
                                       IF error = NoError THEN "done" ELSE "failed",
                                       error))
        /\ events' = events \o txQueryEvents(error)
        /\ tx' = [tx EXCEPT ![h].calls =
                     Append(@, HandleCall("query", Len(execs) + 1, FALSE,
                                          IF error = NoError THEN "resolved"
                                          ELSE "rejected", error))]
        /\ UNCHANGED <<pool, qry, whereVars, repoVars>>

\* whether client.release() may throw: only on a connection that is not
\* checked out; then it throws or not, as the pool decides
ReleaseMayThrow(c) == IF pool[c].held THEN {FALSE} ELSE {FALSE, TRUE}
\* the pool after client.release() on connection c
Released(c) == [pool EXCEPT ![c].held = FALSE]
\* what `try { await client.query(sql) } finally { client.release() }`
\* settles to: the error of release when it throws, else that of the
\* statement
finallyRelease_Skipped(h, op, sql, error, threw) ==
    /\ execs' = Append(execs, Exec(h, tx[h].conn, sql,
                                   IF error = NoError THEN "done" ELSE "failed",
                                   error))
    /\ pool' = IF error = NoError THEN Released(tx[h].conn) ELSE pool
    /\ tx' = [tx EXCEPT
                ![h].releases = IF error = NoError THEN @ + 1 ELSE @,
                ![h].calls =
                    Append(@, HandleCall(op, Len(execs) + 1, error = NoError,
                                         IF error = NoError /\ ~threw
                                         THEN "resolved" ELSE "rejected",
                                         IF threw /\ error = NoError
                                         THEN ReleaseError ELSE error))]
finallyRelease(h, op, sql, error, threw) ==
    /\ execs' = Append(execs, Exec(h, tx[h].conn, sql,
                                   IF error = NoError THEN "done" ELSE "failed",
                                   error))
    /\ pool' = Released(tx[h].conn)
    /\ tx' = [tx EXCEPT
                ![h].releases = @ + 1,
                ![h].calls =
                    Append(@, HandleCall(op, Len(execs) + 1, TRUE,
                                         IF error = NoError /\ ~threw
                                         THEN "resolved" ELSE "rejected",
                                         IF threw THEN ReleaseError ELSE error))]

\* commit() on a handle
Commit ==
    \E h \in Callable, error \in Outcomes(Len(execs) + 1) :
        \E threw \in ReleaseMayThrow(tx[h].conn) :
            /\ finallyRelease(h, "commit", "COMMIT", error, threw)
            /\ events' = IF error = NoError
                         THEN Append(events, Event("TRANSACTION_COMMIT", 0))
                         ELSE events
            /\ UNCHANGED <<qry, whereVars, repoVars>>

\* rollback() on a handle
Rollback ==
    \E h \in Callable, error \in Outcomes(Len(execs) + 1) :
        \E threw \in ReleaseMayThrow(tx[h].conn) :
            /\ finallyRelease(h, "rollback", "ROLLBACK", error, threw)
            /\ events' = IF error = NoError
                         THEN Append(events, Event("TRANSACTION_ROLLBACK", 0))
                         ELSE events
            /\ UNCHANGED <<qry, whereVars, repoVars>>

NextTx ==
    \/ ConnectFails
    \/ BeginTransaction
    \/ BeginFails
    \/ TxQuery
    \/ Commit
    \/ Rollback

SpecTx == InitTx /\ [][NextTx]_vars

----------------------------------------------------------------------------
(* Reading SQL text back: used only to state properties *)

Char(s, i) == SubSeq(s, i, i)
Digits == {"0", "1", "2", "3", "4", "5", "6", "7", "8", "9"}
DigitVal(c) == CHOOSE d \in 0..9 : ToString(d) = c

\* occurrences of the character c in s
CountChar(s, c) == Cardinality(Occurrences(s, c))

\* number of placeholders of either style in a text
PlaceholderCount(s) == CountChar(s, "$") + CountChar(s, "?")

RECURSIVE Sorted(_)
\* the elements of a finite set of numbers in increasing order
Sorted(S) == IF S = {} THEN <<>> ELSE <<Min(S)>> \o Sorted(S \ {Min(S)})

RECURSIVE ReadNumber(_, _, _)
\* value of the digits of s from position i on, continuing the value n
ReadNumber(s, i, n) ==
    IF i > Len(s) \/ Char(s, i) \notin Digits THEN n
    ELSE ReadNumber(s, i + 1, 10 * n + DigitVal(Char(s, i)))

\* the numbers n of the placeholders $n of s, in text order
PgNumbers(s) ==
    LET at == Sorted(Occurrences(s, "$"))
    IN [k \in 1..Len(at) |-> ReadNumber(s, at[k] + 1, 0)]

\* parenthesis depth of s just before position i
Depth(s, i) ==
    Cardinality({j \in Occurrences(s, "(") : j < i})
        - Cardinality({j \in Occurrences(s, ")") : j < i})

\* the pieces of s between the occurrences of sep outside parentheses
SplitTop(s, sep) ==
    LET at == Sorted({i \in Occurrences(s, sep) : Depth(s, i) = 0})
        n == Len(at)
    IN [k \in 1..(n + 1) |->
          SubSeq(s, IF k = 1 THEN 1 ELSE at[k - 1] + Len(sep),
                    IF k = n + 1 THEN Len(s) ELSE at[k] - 1)]

\* the top-level terms of a WHERE clause (the pieces joined by ' AND ')
TopTerms(whereClause) ==
    IF whereClause = "" THEN <<>>
    ELSE SplitTop(SubSeq(whereClause, 8, Len(whereClause)), " AND ")

StartsWith(s, pre) == Len(s) >= Len(pre) /\ SubSeq(s, 1, Len(pre)) = pre
EndsWith(s, suf) ==
    Len(s) >= Len(suf) /\ SubSeq(s, Len(s) - Len(suf) + 1, Len(s)) = suf
\* a term wrapped in one pair of parentheses
IsGroupTerm(t) == StartsWith(t, "(") /\ EndsWith(t, ")")
Inner(t) == SubSeq(t, 2, Len(t) - 1)

Consecutive(ns, from) == \A i \in 1..Len(ns) : ns[i] = from + i - 1

RECURSIVE Flatten(_)
Flatten(seqs) == IF Len(seqs) = 0 THEN <<>> ELSE seqs[1] \o Flatten(Tail(seqs))

----------------------------------------------------------------------------
(* What a condition tree asks for, read off the tree itself *)

NullOperators == {"IS NULL", "IS NOT NULL"}
SetOperators == {"IN", "NOT IN", "BETWEEN"}

\* the values a leaf binds: none for a NULL check or a NOT EXISTS subquery
LeafValues(l) ==
    IF l.operator \in NullOperators THEN <<>>
    ELSE IF l.operator = "NOT EXISTS" /\ l.vtype = "string" THEN <<>>
    ELSE l.items

IsLeafChild(c) ==
    c.isObj /\ Len(c.entries) = 1 /\ c.entries[1].node.kind = "leaf"

\* the implicit leaves of an object, in insertion order
ImplicitEntries(conditions) ==
    SelectSeq(conditions, LAMBDA e : e.node.kind = "leaf")
\* the group entries (AND / OR / JOINS holding an array) of an object
GroupsOf(conditions) ==
    SelectSeq(conditions,
              LAMBDA e : e.key \in GroupKeys /\ e.node.kind = "list")

RECURSIVE TreeValues(_)
\* the values of all leaves of a tree, object by object
TreeValues(conditions) ==
    IF Len(conditions) = 0 THEN <<>>
    ELSE LET e == conditions[1]
             here == IF e.node.kind = "leaf" THEN LeafValues(e.node)
                     ELSE IF e.node.kind = "list"
                     THEN Flatten([i \in 1..Len(e.node.children) |->
                                     TreeValues(e.node.children[i].entries)])
                     ELSE <<>>
         IN here \o TreeValues(Tail(conditions))

Malformed(l) ==
    /\ l.kind = "leaf"
    /\ l.operator \in SetOperators
    /\ l.vtype # "array" \/ (l.operator = "BETWEEN" /\ Len(l.items) # 2)

----------------------------------------------------------------------------
(* Properties of the clause compiler (specification SpecWhere) *)

Ret == whereRet
Call == whereCall
Terms == TopTerms(whereRet.whereClause)

\* C1: for every condition object, start index and dialect, the index
\* advance nextIndex - startIndex equals the number of placeholders in the
\* text, which equals params.length (an n-element IN advances by n on both
\* dialects).
C1_IndexAdvanceCountsPlaceholders ==
    Ret.done =>
        /\ Ret.index - Call.startIndex = PlaceholderCount(Ret.whereClause)
        /\ PlaceholderCount(Ret.whereClause) = Len(Ret.values)

\* the case of C2: exactly one group, all of whose children (at least one)
\* are leaves
OneLeafGroup(conditions) ==
    /\ Len(GroupsOf(conditions)) = 1
    /\ Len(GroupsOf(conditions)[1].node.children) >= 1
    /\ \A i \in 1..Len(GroupsOf(conditions)[1].node.children) :
           IsLeafChild(GroupsOf(conditions)[1].node.children[i])

OrExample ==
    <<Entry("OR", List(<<
        ObjChild(<<Entry("status", Leaf("=", "string", <<"active">>))>>),
        ObjChild(<<Entry("status", Leaf("=", "string", <<"pending">>))>>)>>))>>

C3_ImplicitLeavesPlusGroup ==
    (Ret.done /\ Len(ImplicitEntries(Call.conditions)) >= 1
              /\ Len(GroupsOf(Call.conditions)) = 1) =>
        LET leaves == ImplicitEntries(Call.conditions)
            k == Len(leaves)
        IN /\ Len(Terms) = k + 1
           /\ \A i \in 1..k : /\ Includes(Terms[i], leaves[i].key)
                              /\ ~IsGroupTerm(Terms[i])
           /\ IsGroupTerm(Terms[k + 1])

HasNestedGroup(conditions) ==
    \E i \in 1..Len(GroupsOf(conditions)) :
        \E j \in 1..Len(GroupsOf(conditions)[i].node.children) :
            LET c == GroupsOf(conditions)[i].node.children[j]
            IN c.isObj /\ Len(c.entries) >= 1 /\ c.entries[1].node.kind = "list"

\* C4: for a nested tree (a group whose child is itself a group) the clause
\* has one comparison per leaf of the tree, the placeholders are numbered
\* consecutively from startIndex, and params holds every leaf's value.
C4_NestedTreeCompilesEveryLeaf ==
    (Ret.done /\ HasNestedGroup(Call.conditions)) =>
        LET want == TreeValues(Call.conditions)
        IN /\ Len(Ret.values) = Len(want)
           /\ \A i \in 1..Len(want) :
                 \E j \in 1..Len(Ret.values) : Ret.values[j] = want[i]
           /\ PlaceholderCount(Ret.whereClause) = Len(want)
           /\ Call.clientType = "pg" =>
                 \E perm \in [1..Len(want) -> 1..Len(want)] :
                     /\ \A a, b \in 1..Len(want) : a # b => perm[a] # perm[b]
                     /\ Len(PgNumbers(Ret.whereClause)) = Len(want)
                     /\ \A a \in 1..Len(want) :
                           PgNumbers(Ret.whereClause)[a]
                               = Call.startIndex + perm[a] - 1

\* C5: a set operator (IN, NOT IN, BETWEEN) with a non-array value, or
\* BETWEEN with an array of length other than 2, makes createWhereClause fail
\* with MalformedCondition and return no SQL text.
C5_MalformedConditionRejected ==
    (Ret.done /\ \E i \in 1..Len(Call.conditions) :
                     /\ Malformed(Call.conditions[i].node)
                     /\ Call.conditions[i].node.vtype # "absent") =>
        /\ Ret.error = "MalformedCondition"
        /\ Ret.whereClause = ""

----------------------------------------------------------------------------
(* Properties of the repository operations *)

Elems(seq) == {seq[i] : i \in 1..Len(seq)}
Resolved(op) == req.op = op /\ ret.state = "resolved"

\* the data values the caller handed to the operation
CallerValues ==
    Elems(req.data.values)
    \cup UNION {Elems(req.items.list[i].values) : i \in 1..Len(req.items.list)}
    \cup (IF req.op \in {"update", "deleteOne"} THEN {req.id} ELSE {})
    \cup Elems(req.ids.list)
    \cup Elems(TreeValues(req.where.conditions))

\* C6: every statement an operation issues passes every caller-supplied data
\* value (row values, the id of update / deleteOne, the ids of deleteMany,
\* condition values) in its parameter list and never copies one into the
\* SQL text.
C6_CallerValuesAreBoundNeverInterpolated ==
    ret.state = "resolved" =>
        /\ \A i \in 1..Len(queries) : \A v \in CallerValues :
               ~Includes(queries[i].text, v)
        /\ \A v \in CallerValues :
               \E i \in 1..Len(queries) : v \in Elems(queries[i].params)

\* the UPDATE text of updateMany up to its WHERE clause, and from there on
SetPart(text) ==
    IF Includes(text, " WHERE ")
    THEN SubSeq(text, 1, IndexOfFrom(text, " WHERE ", 1) - 1) ELSE text
WherePart(text) ==
    IF Includes(text, " WHERE ")
    THEN SubSeq(text, IndexOfFrom(text, " WHERE ", 1), Len(text)) ELSE ""
\* the parameters the where argument contributes, whatever the start index
WhereParams == TreeValues(req.where.conditions)

\* C7: updateMany with N data keys numbers the SET placeholders 1..N in key
\* order, numbers the WHERE placeholders from N+1 on, and passes the data
\* values in key order followed by the where parameters, so that on pg $i
\* names the i-th parameter and no SET number recurs in the WHERE clause.
C7_UpdateManySetThenWhereNumbering ==
    Resolved("updateMany") =>
        /\ queries[1].params = req.data.values \o WhereParams
        /\ PlaceholderCount(queries[1].text) = Len(queries[1].params)
        /\ req.clientType = "pg" =>
              /\ PgNumbers(SetPart(queries[1].text))
                     = [i \in 1..Len(req.data.keys) |-> i]
              /\ \A i \in 1..Len(req.data.keys) :
                     Includes(SetPart(queries[1].text),
                              req.data.keys[i] \o " = $" \o ToString(i))
              /\ Len(PgNumbers(WherePart(queries[1].text))) = Len(WhereParams)
              /\ Consecutive(PgNumbers(WherePart(queries[1].text)),
                             Len(req.data.keys) + 1)
C7_Witness ==
    /\ Resolved("updateMany")
    /\ req.clientType = "pg"
    /\ Len(req.data.keys) = 2
    /\ PgNumbers(queries[1].text) = <<1, 2, 3, 4>>
    /\ Len(queries[1].params) = 4

\* the rows of the table, as the operation left it, with an id in ids
RowsWithId(ids, fields) ==
    LET hit == SelectSeq(db, LAMBDA row : row.id \in ids)
    IN [i \in 1..Len(hit) |-> Project(hit[i], fields)]

\* C8: on mysql, updateMany returns exactly the rows its UPDATE modified.
C8_MysqlUpdateManyReturnsModifiedRows ==
    (Resolved("updateMany") /\ req.clientType = "mysql") =>
        ret.rows = RowsWithId(queries[1].affected, req.returning)

\* C9: insert binds the identifier it generated as the first parameter of
\* the INSERT; on mysql exactly one SELECT follows, bound to that identifier
\* alone, and its first row is returned; on pg nothing follows the INSERT
\* and the first row of the INSERT's response is returned.
C9_InsertIdFirstThenDialectFetch ==
    Resolved("insert") =>
        /\ StartsWith(queries[1].text, "INSERT INTO ")
        /\ queries[1].params[1] = NewUuid(uuids)
        /\ db[Len(db)].id = NewUuid(uuids)
        /\ req.clientType = "mysql" =>
              /\ Len(queries) = 2
              /\ StartsWith(queries[2].text, "SELECT ")
              /\ queries[2].params = <<NewUuid(uuids)>>
              /\ ret.type = "row"
              /\ ret.rows = <<queries[2].rows[1]>>
        /\ req.clientType = "pg" =>
              /\ Len(queries) = 1
              /\ IF Len(queries[1].rows) = 0 THEN ret.type = "undefined"
                 ELSE ret.type = "row" /\ ret.rows = <<queries[1].rows[1]>>
C9_Witness ==
    /\ Resolved("insert")
    /\ req.clientType = "mysql"
    /\ Len(queries) = 2
    /\ uuids = 1
    /\ queries[2].params = <<"uuid-1">>
    /\ ret.type = "row"
    /\ Len(db) = MaxRows + 1

\* C10: insert returns the inserted record on both dialects, with or without
\* a `returning` list; the record carries the generated id whenever the list
\* does not leave the id out.
C10_InsertReturnsTheRecord ==
    Resolved("insert") =>
        /\ ret.type = "row"
        /\ (Len(req.returning) = 0 \/ "id" \in Elems(req.returning)) =>
               ret.rows[1].id = NewUuid(uuids)

\* the row of the table, as the operation left it, with identifier id
StoredRowWithId(id) == db[CHOOSE j \in 1..Len(db) : db[j].id = id]
\* the identifier generated for input item i (1-based) of insertMany
ItemId(i) == NewUuid(uuids - Len(req.items.list) + i)

\* C11: on mysql, insertMany of N rows returns N rows in input order: row i
\* of the result is the stored row whose id was generated for input item i.
C11_MysqlInsertManyKeepsInputOrder ==
    (Resolved("insertMany") /\ req.clientType = "mysql") =>
        /\ Len(ret.rows) = Len(req.items.list)
        /\ \A i \in 1..Len(req.items.list) :
               ret.rows[i] = Project(StoredRowWithId(ItemId(i)), req.returning)
        /\ queries[2].params
               = [i \in 1..Len(req.items.list) |-> ItemId(i)]
                 \o [i \in 1..Len(req.items.list) |-> ItemId(i)]
C11_Witness ==
    /\ Resolved("insertMany")
    /\ req.clientType = "mysql"
    /\ Len(req.items.list) = 2
    /\ req.items.list[1].values # req.items.list[2].values
    /\ Len(db) = MaxRows + 2
    /\ Len(ret.rows) = 2
    /\ ret.rows[1].status # ret.rows[2].status

\* the value tuples of an INSERT text: what follows VALUES, up to RETURNING
ValuesPart(text) ==
    SubSeq(text, IndexOfFrom(text, " VALUES ", 1) + 8,
           IF Includes(text, " RETURNING ")
           THEN IndexOfFrom(text, " RETURNING ", 1) - 1 ELSE Len(text))
ValueTuples(text) == SplitTop(ValuesPart(text), ", ")
\* S: the columns of one tuple of insertMany
Stride == 2 + Len(req.items.list[1].keys)

\* C12: for every data array insertMany accepts, the INSERT has one value
\* tuple per item; on pg tuple r (0-based) uses exactly the placeholders
\* $(r*S+1)..$((r+1)*S); the parameter list has N*S entries and entry r*S
\* is the identifier generated for item r.
C12_InsertManyStride ==
    (req.op = "insertMany" /\ Len(queries) > 0) =>
        /\ Len(ValueTuples(queries[1].text)) = Len(req.items.list)
        /\ \A r \in 0..(Len(req.items.list) - 1) :
               /\ PlaceholderCount(ValueTuples(queries[1].text)[r + 1]) = Stride
               /\ req.clientType = "pg" =>
                      PgNumbers(ValueTuples(queries[1].text)[r + 1])
                          = [k \in 1..Stride |-> r * Stride + k]
        /\ Len(queries[1].params) = Len(req.items.list) * Stride
        /\ \A r \in 0..(Len(req.items.list) - 1) :
               queries[1].params[r * Stride + 1] = ItemId(r + 1)

\* the named errors of the required inputs the request lacks
MissingErrors ==
    (IF req.tableName = "" THEN {"Table name is required"} ELSE {})
    \cup (IF req.clientType = "none" THEN {"DB client is required"} ELSE {})
    \cup (IF req.op \in {"insert", "update", "updateMany"} /\ ~req.data.defined
          THEN {"Data object is required"} ELSE {})
    \cup (IF req.op = "insertMany"
             /\ (~req.items.defined \/ Len(req.items.list) = 0)
          THEN {"Data array is required and cannot be empty"} ELSE {})
    \cup (IF req.op \in {"update", "deleteOne"} /\ req.id = ""
          THEN {"ID is required"} ELSE {})
    \cup (IF req.op = "deleteMany"
             /\ (~req.ids.defined \/ Len(req.ids.list) = 0)
          THEN {"IDs are required and cannot be empty"} ELSE {})
    \cup (IF req.op = "updateMany" /\ ~req.where.defined
          THEN {"Where condition is required"} ELSE {})

\* C20: an operation whose table name, client, data, id, ids or where is
\* missing (or whose data / ids array is empty) rejects with the error named
\* after a missing input and issues no query.
C20_MissingInputRejectsBeforeAnyQuery ==
    (ret.state # "pending" /\ MissingErrors # {}) =>
        /\ ret.state = "rejected"
        /\ ret.error \in MissingErrors
        /\ queries = <<>>
C20_Witness ==
    /\ req.op = "updateMany"
    /\ req.data.defined
    /\ ~req.where.defined
    /\ ret.state = "rejected"
    /\ ret.error = "Where condition is required"
    /\ queries = <<>>
    /\ Len(db) = MaxRows

----------------------------------------------------------------------------
(* Properties of the clients *)

Settled == qry.pc \in {"resolved", "rejected"}
HasEvent(type, attempt) ==
    \E i \in 1..Len(events) : events[i] = Event(type, attempt)
\* the signatures both clients know as transient, and codes neither knows
CommonTransientCodes == {"ECONNRESET", "ETIMEDOUT", "ECONNREFUSED"}
PermanentCodes == {"ER_NO_SUCH_TABLE", ""}
\* the four signatures of a transient error
FourSignatures ==
    {"ECONNRESET", "ETIMEDOUT", "ECONNREFUSED", "PROTOCOL_CONNECTION_LOST"}
Failed(i) == execs[i].state = "failed"

\* C13: every RETRY_ATTEMPT event of a query call is followed by the start
\* of the next attempt of the statement; a settled call has one
\* RETRY_ATTEMPT less than it has attempts.
C13_RetryEventIsFollowedByAnAttempt ==
    Settled =>
        \A i \in 1..Len(events) :
            events[i].type = "RETRY_ATTEMPT" =>
                \E j \in (i + 1)..Len(events) :
                    events[j] = Event("QUERY_START", events[i].attempt + 1)

\* C14: under retry policy {retries: R} the statement is never executed
\* more than R+1 times; a call whose every attempt fails with a transient
\* error executes it R+1 times and then rejects with the last error.
C14_AtMostRetriesPlusOneAttempts ==
    /\ Len(execs) <= qry.retries + 1
    /\ (/\ Len(execs) > 0
        /\ \A i \in 1..Len(execs) :
               Failed(i) /\ execs[i].error.code \in CommonTransientCodes) =>
           IF Len(execs) = qry.retries + 1
           THEN /\ qry.pc = "rejected"
                /\ qry.error = execs[Len(execs)].error
                /\ qry.error.attempt = qry.retries + 1
           ELSE qry.pc \in {"scheduled", "attempting"}
C14_Witness ==
    /\ qry.pc = "rejected"
    /\ qry.retries = MaxRetries
    /\ Len(execs) = MaxRetries + 1
    /\ \A i \in 1..Len(execs) : execs[i].error.code = "ETIMEDOUT"
    /\ qry.error = [code |-> "ETIMEDOUT", attempt |-> MaxRetries + 1]

\* C15: a statement failing with an error that is not transient (an unknown
\* code or no code) is not executed again: QUERY_ERROR is emitted, no
\* RETRY_ATTEMPT, and the call rejects with that error, whatever the policy;
\* when it is the first attempt the statement was executed exactly once.
C15_PermanentErrorIsNotRetried ==
    \A i \in 1..Len(execs) :
        (Failed(i) /\ execs[i].error.code \in PermanentCodes) =>
            /\ i = Len(execs)
            /\ qry.pc = "rejected"
            /\ qry.error = execs[i].error
            /\ HasEvent("QUERY_ERROR", i)
            /\ ~HasEvent("RETRY_ATTEMPT", i)
            /\ events[Len(events)] = Event("QUERY_ERROR", i)
C15_Witness ==
    /\ qry.pc = "rejected"
    /\ qry.retries = MaxRetries
    /\ Len(execs) = 1
    /\ qry.error = [code |-> "", attempt |-> 1]
    /\ events = <<Event("QUERY_START", 1), Event("QUERY_ERROR", 1)>>

\* C16: on both clients a failure is classified transient (RETRY_ATTEMPT is
\* emitted, and the statement retried while the policy allows) exactly when
\* its code is one of the four signatures.
C16_FourSignaturesOnBothClients ==
    \A i \in 1..Len(execs) :
        Failed(i) =>
            /\ HasEvent("RETRY_ATTEMPT", i)
                   <=> execs[i].error.code \in FourSignatures
            /\ (execs[i].error.code \in FourSignatures /\ i <= qry.retries) =>
                   qry.pc # "rejected"

\* the statement a call on a handle executed
ExecOf(call) == execs[call.exec]
\* commit() / rollback() as a call should be: its statement on the handle's
\* connection, client.release() called, the statement's error propagated
\* (the error of release itself when that one throws)
TerminalCallOk(h, call, sql) ==
    /\ ExecOf(call).sql = sql
    /\ ExecOf(call).by = h
    /\ ExecOf(call).conn = tx[h].conn
    /\ call.released
    /\ ExecOf(call).state = "failed" =>
           /\ call.outcome = "rejected"
           /\ call.error \in {ExecOf(call).error, ReleaseError}
    /\ call.outcome = "rejected" =>
           \/ call.error = ReleaseError
           \/ ExecOf(call).state = "failed" /\ call.error = ExecOf(call).error

\* C17: commit() issues COMMIT and rollback() issues ROLLBACK on the handle's
\* connection, and each calls release whether the statement succeeds or
\* throws, the error still reaching the caller; a beginTransaction whose
\* BEGIN fails releases the connection, rejects with the error of BEGIN and
\* returns no handle.
C17_CommitRollbackReleaseAlways ==
    \A h \in 1..Len(tx) :
        /\ (tx[h].conn # 0 /\ ~tx[h].ok) =>
               /\ tx[h].releases = 1
               /\ tx[h].calls = <<>>
               /\ \E n \in 1..Len(execs) :
                      /\ execs[n] = Exec(h, tx[h].conn, "BEGIN", "failed",
                                         tx[h].error)
                      /\ tx[h].error # NoError
        /\ \A k \in 1..Len(tx[h].calls) :
               /\ tx[h].calls[k].op = "commit" =>
                      TerminalCallOk(h, tx[h].calls[k], "COMMIT")
               /\ tx[h].calls[k].op = "rollback" =>
                      TerminalCallOk(h, tx[h].calls[k], "ROLLBACK")
C17_Witness ==
    /\ Len(tx) = 2
    /\ tx[1].ok
    /\ Len(tx[1].calls) = 1
    /\ tx[1].calls[1].op = "commit"
    /\ tx[1].calls[1].outcome = "rejected"
    /\ tx[1].calls[1].error = TxError("23505", 2)
    /\ tx[1].calls[1].released
    /\ tx[2].conn # 0 /\ ~tx[2].ok /\ tx[2].releases = 1
    /\ \A c \in 1..Len(pool) : ~pool[c].held

\* a handle whose commit() or rollback() was called
Ended(h) ==
    \E k \in 1..Len(tx[h].calls) : tx[h].calls[k].op \in {"commit", "rollback"}

\* C18: whatever calls are made on a handle, its connection is released at
\* most once, and exactly once when commit() or rollback() was called.
C18_ReleasedExactlyOnce ==
    \A h \in 1..Len(tx) :
        /\ tx[h].releases <= 1
        /\ (tx[h].ok /\ Ended(h)) => tx[h].releases = 1

\* the positions of the statements the query() calls of handle h executed
QueryExecs(h) ==
    {n \in 1..Len(execs) : execs[n].by = h /\ execs[n].sql = "SELECT 1"}
QueryCalls(h) ==
    {k \in 1..Len(tx[h].calls) : tx[h].calls[k].op = "query"}
CountEvents(type) ==
    Cardinality({i \in 1..Len(events) : events[i].type = type})

\* C19: query() on a handle executes its statement once on the handle's
\* connection; when the statement fails, also with a transient code, it is
\* not executed again, no RETRY_ATTEMPT is emitted and the call rejects
\* with the statement's error.
C19_HandleQueryRunsOnce ==
    /\ CountEvents("RETRY_ATTEMPT") = 0
    /\ CountEvents("QUERY_START")
           = Cardinality({n \in 1..Len(execs) : execs[n].sql = "SELECT 1"})
    /\ CountEvents("QUERY_START")
           = CountEvents("QUERY_END") + CountEvents("QUERY_ERROR")
    /\ \A h \in 1..Len(tx) :
           /\ Cardinality(QueryExecs(h)) = Cardinality(QueryCalls(h))
           /\ \A k \in QueryCalls(h) :
                  /\ tx[h].calls[k].exec \in QueryExecs(h)
                  /\ ExecOf(tx[h].calls[k]).conn = tx[h].conn
                  /\ ~tx[h].calls[k].released
                  /\ IF ExecOf(tx[h].calls[k]).state = "failed"
                     THEN /\ tx[h].calls[k].outcome = "rejected"
                          /\ tx[h].calls[k].error = ExecOf(tx[h].calls[k]).error
                     ELSE tx[h].calls[k].outcome = "resolved"
C19_Witness ==
    /\ Len(tx) = 1
    /\ Len(tx[1].calls) = MaxCalls
    /\ \A k \in 1..MaxCalls :
           /\ tx[1].calls[k].op = "query"
           /\ tx[1].calls[k].outcome = "rejected"
           /\ tx[1].calls[k].error.code = "ECONNRESET"
    /\ Len(execs) = MaxCalls + 1
    /\ CountEvents("QUERY_ERROR") = MaxCalls

----------------------------------------------------------------------------
(* Properties of deleteOne, deleteMany, findFirst, findMany *)

\* the placeholder of the dialect for position n
PlaceholderAt(clientType, n) ==
    IF clientType = "pg" THEN "$" \o ToString(n) ELSE "?"
\* the statement is the soft delete and no DELETE
IsSoftDelete(text) ==
    /\ StartsWith(text, "UPDATE " \o req.tableName \o " SET status = 'deleted' WHERE ")
    /\ ~Includes(text, "DELETE")
\* the statement is a DELETE and no UPDATE
IsHardDelete(text) ==
    /\ StartsWith(text, "DELETE FROM " \o req.tableName \o " WHERE ")
    /\ ~Includes(text, "UPDATE")
    /\ ~Includes(text, "SET status")

\* C21: deleteOne and deleteMany issue exactly one statement, the soft-delete
\* UPDATE (never a DELETE) unless permanently is true and then a DELETE
\* (never the UPDATE); the statement of deleteMany has one placeholder per id
\* on the chosen field and is bound to the ids in input order.
C21_DeleteIssuesOneStatementOfItsKind ==
    (Resolved("deleteOne") \/ Resolved("deleteMany")) =>
        /\ Len(queries) = 1
        /\ IF req.permanently THEN IsHardDelete(queries[1].text)
           ELSE IsSoftDelete(queries[1].text)
        /\ Resolved("deleteOne") =>
               /\ EndsWith(queries[1].text,
                           " WHERE id = " \o PlaceholderAt(req.clientType, 1))
               /\ queries[1].params = <<req.id>>
        /\ Resolved("deleteMany") =>
               /\ EndsWith(queries[1].text,
                           " WHERE " \o req.field \o " IN ("
                             \o Join([k \in 1..Len(req.ids.list) |->
                                        PlaceholderAt(req.clientType, k)], ", ")
                             \o ")")
               /\ PlaceholderCount(queries[1].text) = Len(req.ids.list)
               /\ queries[1].params = req.ids.list
C21_Witness ==
    /\ Resolved("deleteMany")
    /\ req.clientType = "pg"
    /\ ~req.permanently
    /\ req.field = "name"
    /\ req.ids.list = <<"Bob", "r1">>
    /\ queries[1].text
           = "UPDATE users SET status = 'deleted' WHERE name IN ($1, $2)"
    /\ queries[1].params = <<"Bob", "r1">>
    /\ Len(db) = MaxRows
    /\ \A i \in 1..Len(db) : db[i].status = "deleted"

\* the stored rows the where argument of the request selects, in storage order
StoredMatches ==
    [i \in 1..Cardinality({k \in 1..Len(db) : Matches(db[k], req.where.conditions)})
       |-> db[Sorted({k \in 1..Len(db) : Matches(db[k], req.where.conditions)})[i]]]

C23_FindManyAlwaysResolvesToAnArray ==
    Resolved("findMany") =>
        /\ Len(queries) = 1
        /\ ret.type = "rows"
        /\ ret.rows = queries[1].rows
        /\ queries[1].response \in {"null", "undefined"} => ret.rows = <<>>
C23_Witness ==
    /\ Resolved("findMany")
    /\ queries[1].response = "undefined"
    /\ Len(db) = MaxRows
    /\ ret.type = "rows"
    /\ ret.rows = <<>>

----------------------------------------------------------------------------
(* Properties of the leaves of the clause compiler (specification SpecWhere) *)

\* the call compiled an object that is one leaf
OneLeaf == Len(Call.conditions) = 1 /\ Call.conditions[1].node.kind = "leaf"
TheKey == Call.conditions[1].key
TheLeaf == Call.conditions[1].node

\* C24: a leaf with a parameterless operator binds nothing and leaves the
\* index where it was: IS NULL / IS NOT NULL compile to 'field OPERATOR'
\* whatever value, if any, comes with the operator, and NOT EXISTS with a
\* string value compiles to 'NOT EXISTS (<subquery>)', the subquery copied as
\* it is.
C24_ParameterlessOperators ==
    (Ret.done /\ OneLeaf) =>
        /\ TheLeaf.operator \in NullOperators =>
               /\ Ret.whereClause = " WHERE " \o TheKey \o " " \o TheLeaf.operator
               /\ Ret.values = <<>>
               /\ Ret.index = Call.startIndex
        /\ (TheLeaf.operator = "NOT EXISTS" /\ TheLeaf.vtype = "string") =>
               /\ Ret.whereClause
                      = " WHERE NOT EXISTS (" \o TheLeaf.items[1] \o ")"
               /\ Ret.values = <<>>
               /\ Ret.index = Call.startIndex

\* C25: a BETWEEN leaf with the 2-element value [a, b] compiles to
\* 'field BETWEEN p1 AND p2' with two consecutive placeholders, returns the
\* params [a, b] in that order and advances the index by exactly 2.
C25_BetweenTwoPlaceholders ==
    (Ret.done /\ OneLeaf /\ TheLeaf.operator = "BETWEEN"
        /\ TheLeaf.vtype = "array" /\ Len(TheLeaf.items) = 2) =>
        /\ Ret.whereClause
               = " WHERE " \o TheKey \o " BETWEEN "
                   \o PlaceholderAt(Call.clientType, Call.startIndex)
                   \o " AND "
                   \o PlaceholderAt(Call.clientType, Call.startIndex + 1)
        /\ Ret.values = TheLeaf.items
        /\ Ret.index = Call.startIndex + 2

RECURSIVE RemoveAll(_, _)
\* s without any occurrence of pat
RemoveAll(s, pat) ==
    IF Includes(s, pat) THEN RemoveAll(Replace(s, pat, ""), pat) ELSE s
\* a clause without the unaccent wrapping and without parentheses
Unwrapped(text) ==
    RemoveAll(RemoveAll(RemoveAll(RemoveAll(text, "unaccent("), "::text"),
                        "("), ")")
\* the same call with the other value of unaccent
OtherUnaccent ==
    createWhereClause(Call.conditions, Call.startIndex, Call.clientType,
                      ~Call.unaccent)
\* a leaf of the default branch: an operator with one bound value that is
\* neither a NULL check nor a NOT EXISTS subquery string
IsDefaultComparison(l) ==
    /\ l.kind = "leaf"
    /\ l.vtype \in {"string", "number"}
    /\ l.operator \notin NullOperators
    /\ ~(l.operator = "NOT EXISTS" /\ l.vtype = "string")

\* result r differs from result o, of the same call under the other value of
\* unaccent, in nothing but the unaccent wrapping of the text on pg
OnlyTheTextDiffers(r, o) ==
    /\ r.values = o.values
    /\ r.index = o.index
    /\ Call.clientType = "mysql" => r.whereClause = o.whereClause
    /\ Call.clientType = "pg" =>
           /\ Unwrapped(r.whereClause) = Unwrapped(o.whereClause)
           /\ ~Call.unaccent => ~Includes(r.whereClause, "unaccent")
           /\ (OneLeaf /\ ~IsDefaultComparison(TheLeaf)) =>
                  r.whereClause = o.whereClause
           /\ (OneLeaf /\ IsDefaultComparison(TheLeaf) /\ Call.unaccent) =>
                  r.whereClause
                      = " WHERE unaccent(" \o TheKey \o "::text) "
                          \o TheLeaf.operator \o " unaccent("
                          \o PlaceholderAt("pg", Call.startIndex) \o ")"

----------------------------------------------------------------------------
(* Properties of operations called with a transaction handle *)

\* the request as it would be with the pg client itself as dbClient
WithPgClient == [req EXCEPT !.clientType = "pg"]

\* C27: insert and update called with a transaction handle of the pg client
\* as dbClient send the statement they send with the pg client itself:
\* numbered placeholders $1, $2, ..., one per parameter, and the RETURNING
\* clause when a returning list is given.
C27_HandleCompilesInThePgDialect ==
    (OnHandle(req) /\ req.op \in {"insert", "update"} /\ queries # <<>>) =>
        /\ queries[1].text = IF req.op = "insert" THEN insertQuery(WithPgClient)
                             ELSE updateQuery(WithPgClient)
        /\ ~Includes(queries[1].text, "?")
        /\ Len(PgNumbers(queries[1].text)) = Len(queries[1].params)
        /\ Consecutive(PgNumbers(queries[1].text), 1)
        /\ Len(req.returning) > 0 => Includes(queries[1].text, " RETURNING ")

----------------------------------------------------------------------------
(* Properties of the statements of updateMany *)

\* C28: every UPDATE updateMany issues for a where argument that passed its
\* validation, the empty object included, has a WHERE clause.
C28_UpdateManyAlwaysHasWhere ==
    (req.op = "updateMany" /\ queries # <<>>) =>
        /\ StartsWith(queries[1].text, "UPDATE ")
        /\ Includes(queries[1].text, " WHERE ")

----------------------------------------------------------------------------
(* Properties of the connection of a handle *)

\* call k of handle h came after a call of h that released the connection
AfterRelease(h, k) == \E j \in 1..(k - 1) : tx[h].calls[j].released
\* the statement executed last, when it is a call on a handle
LastCall == execs[Len(execs)]

\* the statement executed last ran on a connection its handle still owned
OwnedByItsHandle ==
    (Len(execs) > 0 /\ LastCall.sql # "BEGIN") =>
        pool[LastCall.conn].holder = LastCall.by

\* C29: a connection serves one handle at a time: no call on a handle
\* executes a statement after a commit() or rollback() of that handle has
\* released the connection, and no statement of a handle runs on a
\* connection the pool has handed to another transaction.
C29_NoStatementAfterRelease ==
    /\ OwnedByItsHandle
    /\ \A h \in 1..Len(tx) : \A k \in 1..Len(tx[h].calls) : ~AfterRelease(h, k)

----------------------------------------------------------------------------
(* Alignment of placeholders and parameters (specification SpecWhere) *)

RECURSIVE TreeLeaves(_)
\* every leaf of a tree with its key, whether compiled or not
TreeLeaves(conditions) ==
    IF Len(conditions) = 0 THEN {}
    ELSE (IF conditions[1].node.kind = "leaf" THEN {conditions[1]}
          ELSE IF conditions[1].node.kind = "list"
          THEN UNION {TreeLeaves(conditions[1].node.children[i].entries)
                      : i \in 1..Len(conditions[1].node.children)}
          ELSE {})
         \cup TreeLeaves(Tail(conditions))

\* the terms joined by ' OR ' or ' AND ' inside a group
GroupTerms(inner) ==
    Flatten([i \in 1..Len(SplitTop(inner, " OR ")) |->
               SplitTop(SplitTop(inner, " OR ")[i], " AND ")])
\* the leaf terms of a clause in text order (a clause of one leaf is one
\* term: the AND of BETWEEN joins no terms)
LeafTerms(whereClause) ==
    IF whereClause = "" THEN <<>>
    ELSE IF OneLeaf THEN <<SubSeq(whereClause, 8, Len(whereClause))>>
    ELSE Flatten([i \in 1..Len(TopTerms(whereClause)) |->
                    IF IsGroupTerm(TopTerms(whereClause)[i])
                    THEN GroupTerms(Inner(TopTerms(whereClause)[i]))
                    ELSE <<TopTerms(whereClause)[i]>>])
\* the field a leaf term compares
TermKey(t) ==
    IF StartsWith(t, "unaccent(")
    THEN SubSeq(t, 10, IndexOfFrom(t, "::text", 1) - 1)
    ELSE IF Includes(t, " ") THEN SubSeq(t, 1, IndexOfFrom(t, " ", 1) - 1)
    ELSE t
RECURSIVE PlaceholdersBefore(_, _)
\* number of placeholders of the terms before term i
PlaceholdersBefore(terms, i) ==
    IF i = 1 THEN 0
    ELSE PlaceholdersBefore(terms, i - 1) + PlaceholderCount(terms[i - 1])
\* the parameters bound to the placeholders of term i: by position on
\* mysql, by number on pg ("" for a number outside the list)
BoundTo(terms, i) ==
    IF Call.clientType = "pg"
    THEN [k \in 1..Len(PgNumbers(terms[i])) |->
            IF PgNumbers(terms[i])[k] - Call.startIndex + 1 \in 1..Len(Ret.values)
            THEN Ret.values[PgNumbers(terms[i])[k] - Call.startIndex + 1]
            ELSE ""]
    ELSE [k \in 1..PlaceholderCount(terms[i]) |->
            IF PlaceholdersBefore(terms, i) + k \in 1..Len(Ret.values)
            THEN Ret.values[PlaceholdersBefore(terms, i) + k]
            ELSE ""]
\* term i is the text of some leaf of the tree and its placeholders are
\* bound to the value of that leaf
BoundToItsLeaf(terms, i) ==
    \E e \in TreeLeaves(Call.conditions) :
        /\ e.key = TermKey(terms[i])
        /\ Includes(terms[i], " " \o e.node.operator \o " ")
        /\ BoundTo(terms, i) = e.node.items

\* C30: in every clause createWhereClause builds, for every start index (1,
\* or the first index after a SET clause), placeholders and parameters are
\* aligned: there are as many placeholders as parameters; on mysql the k-th
\* '?' in text order is bound to the k-th parameter, which is the value of
\* the leaf that emitted it; on pg the numbers in the text are exactly
\* startIndex..nextIndex-1, each once, and $n is bound to the value of the
\* leaf that emitted it.
C30_PlaceholdersAndParamsAligned ==
    Ret.done =>
        /\ PlaceholderCount(Ret.whereClause) = Len(Ret.values)
        /\ Call.clientType = "pg" =>
               /\ Elems(PgNumbers(Ret.whereClause))
                      = Call.startIndex..(Ret.index - 1)
               /\ Len(PgNumbers(Ret.whereClause))
                      = Cardinality(Elems(PgNumbers(Ret.whereClause)))
        /\ \A i \in 1..Len(LeafTerms(Ret.whereClause)) :
               PlaceholderCount(LeafTerms(Ret.whereClause)[i]) > 0 =>
                   BoundToItsLeaf(LeafTerms(Ret.whereClause), i)

====
